---- MODULE Spec2Model ----
(***************************************************************************)
(* A model of the arithmetization core of halo2: the column model and its  *)
(* ordering, the expression algebra with its two evaluators, the query     *)
(* collector of the backend constraint system, the derived quantities of   *)
(* the constraint system, and the permutation argument with its assembly.  *)
(*                                                                         *)
(* Sources: src/halo2_backend/src/plonk/circuit.rs (circuit.rs below) and  *)
(* src/common/src/plonk/permutation.rs (permutation.rs below).             *)
(***************************************************************************)
EXTENDS Integers, Sequences, FiniteSets, TLC

VARIABLES
    cmp_in,        \* column ordering: the three columns being compared
    cmp_out,       \* column ordering: the orderings computed for them
    columns,       \* permutation::Argument.columns
    origin,        \* history: the constructor that made the Argument
    added,         \* history: the arguments of the add_column calls so far
    assembly,      \* AssemblyFront {n, columns, copies}
    copy_call,     \* history: the arguments of the last AssemblyFront::copy
    copy_result,   \* the Result the last AssemblyFront::copy returned
    expr,          \* the Expression under evaluation
    env,           \* the field values of the queries and challenges
    eval_out,      \* the values evaluate and evaluate_lazy returned
    cs2,           \* a ConstraintSystemV2Backend
    collected,     \* what collect_queries returned for cs2
    cs,            \* a ConstraintSystem
    metrics,       \* the value degree / blinding_factors / minimum_rows returned
    fn_in,         \* the arguments of a function of the expression algebra
    fn_out         \* what the functions applied to fn_in returned

vars == <<cmp_in, cmp_out, columns, origin, added, assembly, copy_call,
          copy_result, expr, env, eval_out, cs2, collected, cs, metrics,
          fn_in, fn_out>>

colVars  == <<cmp_in, cmp_out>>
argVars  == <<columns, origin, added>>
asmVars  == <<assembly, copy_call, copy_result>>
evalVars == <<expr, env, eval_out>>
collVars == <<cs2, collected>>
csVars   == <<cs, metrics>>
callVars == <<fn_in, fn_out>>

\* Every variable but columns, added and origin holds an Option: None until
\* the value exists (and for good in a specification that does not use it).
Idle == {}

IdleCol  == cmp_in = Idle /\ cmp_out = Idle
IdleArg  == columns = <<>> /\ origin = "idle" /\ added = <<>>
IdleAsm  == assembly = Idle /\ copy_call = Idle /\ copy_result = Idle
IdleEval == expr = Idle /\ env = Idle /\ eval_out = Idle
IdleColl == cs2 = Idle /\ collected = Idle
IdleCS   == cs = Idle /\ metrics = Idle
IdleCall == fn_in = Idle /\ fn_out = Idle

----------------------------------------------------------------------------
(* Generic helpers.                                                        *)

\* Option<T>: None is the empty set, Some(v) the singleton.
None == {}
Some(v) == {v}
IsSome(o) == o # {}
Unwrap(o) == CHOOSE v \in o : TRUE

Max2(a, b) == IF a >= b THEN a ELSE b

\* Iterator::max() over a sequence of naturals, as an Option.
IterMax(s) ==
    IF Len(s) = 0 THEN None
    ELSE Some(CHOOSE m \in {s[i] : i \in 1..Len(s)} :
                \A i \in 1..Len(s) : s[i] <= m)

UnwrapOr(o, d) == IF IsSome(o) THEN Unwrap(o) ELSE d

SeqsUpTo(U, n) == UNION {[1..k -> U] : k \in 0..n}

\* Vec::contains
Contains(s, x) == \E i \in 1..Len(s) : s[i] = x

NoDup(s) == \A i, j \in 1..Len(s) : s[i] = s[j] => i = j

----------------------------------------------------------------------------
(* Column model (circuit.rs 16-395).                                       *)

\* Bound: the largest column index of the ordering check.
MaxIndex == 1

\* sealed::Phase of FirstPhase, SecondPhase, ThirdPhase.
FirstPhase == 0
SecondPhase == 1
ThirdPhase == 2
Phases == FirstPhase..ThirdPhase

\* enum Any
AnyAdvice(phase) == [kind |-> "Advice", phase |-> phase]
AnyFixed == [kind |-> "Fixed"]
AnyInstance == [kind |-> "Instance"]
AnyTypes == {AnyAdvice(p) : p \in Phases} \cup {AnyFixed, AnyInstance}

\* struct Column<Any>
Column(index, column_type) == [index |-> index, column_type |-> column_type]
Columns == {Column(i, t) : i \in 0..MaxIndex, t \in AnyTypes}

\* Ord for the unsigned integers (u8 phases, usize indices).
IntCmp(a, b) == IF a < b THEN "Less" ELSE IF a = b THEN "Equal" ELSE "Greater"

\* impl Ord for Any
AnyCmp(a, b) ==
    CASE \/ a.kind = "Instance" /\ b.kind = "Instance"
         \/ a.kind = "Fixed" /\ b.kind = "Fixed" -> "Equal"
      [] a.kind = "Advice" /\ b.kind = "Advice" -> IntCmp(a.phase, b.phase)
      [] \/ a.kind = "Instance" /\ b.kind = "Advice"
         \/ a.kind = "Advice" /\ b.kind = "Fixed"
         \/ a.kind = "Instance" /\ b.kind = "Fixed" -> "Less"
      [] \/ a.kind = "Fixed" /\ b.kind = "Instance"
         \/ a.kind = "Fixed" /\ b.kind = "Advice"
         \/ a.kind = "Advice" /\ b.kind = "Instance" -> "Greater"

\* A plausible slip: the index compared before the column type.
ColumnCmpIndexFirst(a, b) ==
    LET order == IntCmp(a.index, b.index)
    IN  IF order = "Equal" THEN AnyCmp(a.column_type, b.column_type) ELSE order

\* impl Ord for Column<C>
ColumnCmp(a, b) ==
    LET order == AnyCmp(a.column_type, b.column_type)
    IN  IF order = "Equal" THEN IntCmp(a.index, b.index) ELSE order

\* Three columns are compared pairwise.
Compare ==
    /\ cmp_in # Idle
    /\ cmp_out = Idle
    /\ LET c == Unwrap(cmp_in)
       IN  cmp_out' = Some([ab |-> ColumnCmp(c[1], c[2]),
                            ba |-> ColumnCmp(c[2], c[1]),
                            bc |-> ColumnCmp(c[2], c[3]),
                            ac |-> ColumnCmp(c[1], c[3])])
    /\ UNCHANGED <<cmp_in, argVars, asmVars, evalVars, collVars, csVars, callVars>>

InitCol ==
    /\ \E a, b, c \in Columns : cmp_in = Some(<<a, b, c>>)
    /\ cmp_out = Idle
    /\ IdleArg /\ IdleAsm /\ IdleEval /\ IdleColl /\ IdleCS /\ IdleCall

NextCol == Compare

SpecCol == InitCol /\ [][NextCol]_vars

\* The rank the ordering gives a column type: Instance < Advice < Fixed, the
\* Advice types among themselves by phase.
KindRank(t) ==
    CASE t.kind = "Instance" -> 0
      [] t.kind = "Advice" -> 1 + t.phase
      [] t.kind = "Fixed" -> 2 + ThirdPhase

Reverse(o) == CASE o = "Less" -> "Greater" [] o = "Greater" -> "Less" [] OTHER -> "Equal"

\* C5: the comparison of columns is a strict total order by kind first
\* (Instance < Advice < Fixed, Advice by phase) and only then by index:
\* exactly one of a<b, a==b, b<a holds, cmp(a,b) is the reverse of cmp(b,a),
\* a<b and b<c give a<c, and cmp(a,b) is Equal exactly for the same kind,
\* phase and index.
C5_ColumnOrder ==
    cmp_out # Idle =>
        LET a == Unwrap(cmp_in)[1]
            b == Unwrap(cmp_in)[2]
            out == Unwrap(cmp_out)
            lt == out.ab = "Less"
            gt == out.ba = "Less"
            eq == a = b
        IN  /\ (lt /\ ~eq /\ ~gt) \/ (~lt /\ eq /\ ~gt) \/ (~lt /\ ~eq /\ gt)
            /\ out.ab = Reverse(out.ba)
            /\ (out.ab = "Less" /\ out.bc = "Less") => out.ac = "Less"
            /\ out.ab = "Equal" <=>
                 (a.column_type = b.column_type /\ a.index = b.index)
            /\ KindRank(a.column_type) < KindRank(b.column_type)
                 => out.ab = "Less"
            /\ (KindRank(a.column_type) = KindRank(b.column_type)
                    /\ a.index < b.index) => out.ab = "Less"

\* Witness of C5: an Advice column of a larger index sorts before a Fixed
\* column of a smaller index, which sorts before nothing of its own index.
C5_Witness ==
    /\ cmp_out # Idle
    /\ Unwrap(cmp_in)[1].column_type.kind = "Advice"
    /\ Unwrap(cmp_in)[2].column_type.kind = "Fixed"
    /\ Unwrap(cmp_in)[1].index > Unwrap(cmp_in)[2].index
    /\ Unwrap(cmp_out).ab = "Less"
    /\ Unwrap(cmp_in)[3] = Unwrap(cmp_in)[2]
    /\ Unwrap(cmp_out).bc = "Equal"

----------------------------------------------------------------------------
(* Permutation argument (permutation.rs 20-88).                            *)

\* Bound: the number of add_column calls made on one Argument.
MaxAdds == 4
\* Bound: the length of the column list of an ArgumentV2.
MaxV2Len == 2

\* The columns the permutation specifications draw from.
PermColumns == {Column(0, AnyInstance), Column(0, AnyAdvice(FirstPhase)),
                Column(0, AnyFixed)}

\* Argument::new
ArgumentNew == <<>>

\* impl From<ArgumentV2> for Argument: the column list is cloned as it is.
ArgumentFrom(arg_columns) == arg_columns

\* A plausible slip: the membership test is dropped.
add_column_always(self, column) == Append(self, column)

\* Argument::add_column
add_column(self, column) ==
    IF ~Contains(self, column) THEN Append(self, column) ELSE self

\* Argument::required_degree
required_degree(self) == 3

New ==
    /\ origin = "none"
    /\ columns' = ArgumentNew
    /\ origin' = "new"
    /\ UNCHANGED <<added, colVars, asmVars, evalVars, collVars, csVars, callVars>>

FromV2 ==
    /\ origin = "none"
    /\ \E arg_columns \in SeqsUpTo(PermColumns, MaxV2Len) :
          columns' = ArgumentFrom(arg_columns)
    /\ origin' = "from"
    /\ UNCHANGED <<added, colVars, asmVars, evalVars, collVars, csVars, callVars>>

AddColumn ==
    /\ origin \in {"new", "from"}
    /\ Len(added) < MaxAdds
    /\ \E column \in PermColumns :
          /\ columns' = add_column(columns, column)
          /\ added' = Append(added, column)
    /\ UNCHANGED <<origin, colVars, asmVars, evalVars, collVars, csVars, callVars>>

InitArg ==
    /\ columns = <<>> /\ origin = "none" /\ added = <<>>
    /\ IdleCol /\ IdleAsm /\ IdleEval /\ IdleColl /\ IdleCS /\ IdleCall

NextArg == New \/ FromV2 \/ AddColumn

SpecArg == InitArg /\ [][NextArg]_vars

\* The distinct elements of a sequence in the order of their first occurrence.
RECURSIVE FirstOccurrences(_)
FirstOccurrences(s) ==
    IF Len(s) = 0 THEN <<>>
    ELSE LET init == FirstOccurrences(SubSeq(s, 1, Len(s) - 1))
             last == s[Len(s)]
         IN  IF \E i \in 1..(Len(s) - 1) : s[i] = last THEN init
             ELSE Append(init, last)

\* C6: after any add_column calls on an Argument made by Argument::new(), the
\* list holds each added column exactly once, in the order of first addition.
C6_AddColumnOrder ==
    origin = "new" =>
        /\ columns = FirstOccurrences(added)
        /\ NoDup(columns)
        /\ \A c \in PermColumns : Contains(columns, c) <=> Contains(added, c)

\* Witness of C6: a column was added again after two others and the list
\* still holds the three in the order of their first addition.
C6_Witness ==
    /\ origin = "new"
    /\ Len(added) = 4
    /\ added[4] = added[1]
    /\ Len(columns) = 3
    /\ columns = <<added[1], added[2], added[3]>>

\* C7: the column list of every Argument holds no column twice, whether it
\* was made by Argument::new() and add_column or converted from an ArgumentV2.
C7_AlwaysDeduplicated == NoDup(columns)

----------------------------------------------------------------------------
(* AssemblyFront (permutation.rs 180-226).                                 *)

\* Bound: the largest table size n and the largest row of a copy call.
MaxRow == 1
\* Bound: the number of copy constraints recorded in one assembly.
MaxCopies == 2

\* The columns the copy calls draw from, and the column lists of the
\* Arguments an assembly is created from.
AsmColumns == {Column(0, AnyAdvice(FirstPhase)), Column(0, AnyFixed)}
AsmArguments == SeqsUpTo(AsmColumns, Cardinality(AsmColumns))
Rows == 0..MaxRow

\* struct Cell
Cell(column, row) == [column |-> column, row |-> row]

\* Result<(), Error>
Ok == [tag |-> "Ok"]
ColumnNotInPermutation(column) ==
    [tag |-> "Err", error |-> "ColumnNotInPermutation", column |-> column]
BoundsFailure == [tag |-> "Err", error |-> "BoundsFailure"]

\* AssemblyFront::new
AssemblyFrontNew(n, p_columns) ==
    [n |-> n, columns |-> p_columns, copies |-> <<>>]

\* A plausible slip: the rows are checked before the columns.
copy_bounds_first(self, left_column, left_row, right_column, right_row) ==
    IF left_row >= self.n \/ right_row >= self.n
    THEN [self |-> self, result |-> BoundsFailure]
    ELSE IF ~Contains(self.columns, left_column)
    THEN [self |-> self, result |-> ColumnNotInPermutation(left_column)]
    ELSE IF ~Contains(self.columns, right_column)
    THEN [self |-> self, result |-> ColumnNotInPermutation(right_column)]
    ELSE [self |-> [self EXCEPT !.copies =
                      Append(@, <<Cell(left_column, left_row),
                                  Cell(right_column, right_row)>>)],
          result |-> Ok]

\* A plausible slip: only the left row is checked against n.
copy_left_bound_only(self, left_column, left_row, right_column, right_row) ==
    IF ~Contains(self.columns, left_column)
    THEN [self |-> self, result |-> ColumnNotInPermutation(left_column)]
    ELSE IF ~Contains(self.columns, right_column)
    THEN [self |-> self, result |-> ColumnNotInPermutation(right_column)]
    ELSE IF left_row >= self.n
    THEN [self |-> self, result |-> BoundsFailure]
    ELSE [self |-> [self EXCEPT !.copies =
                      Append(@, <<Cell(left_column, left_row),
                                  Cell(right_column, right_row)>>)],
          result |-> Ok]

\* A plausible slip: a pair that is already recorded, as given or mirrored,
\* is not recorded again.
copy_deduplicating(self, left_column, left_row, right_column, right_row) ==
    LET l == Cell(left_column, left_row)
        r == Cell(right_column, right_row)
    IN  IF ~Contains(self.columns, left_column)
        THEN [self |-> self, result |-> ColumnNotInPermutation(left_column)]
        ELSE IF ~Contains(self.columns, right_column)
        THEN [self |-> self, result |-> ColumnNotInPermutation(right_column)]
        ELSE IF left_row >= self.n \/ right_row >= self.n
        THEN [self |-> self, result |-> BoundsFailure]
        ELSE IF Contains(self.copies, <<l, r>>) \/ Contains(self.copies, <<r, l>>)
        THEN [self |-> self, result |-> Ok]
        ELSE [self |-> [self EXCEPT !.copies = Append(@, <<l, r>>)],
              result |-> Ok]

\* AssemblyFront::copy: the assembly after the call and the Result returned.
copy(self, left_column, left_row, right_column, right_row) ==
    IF ~Contains(self.columns, left_column)
    THEN [self |-> self, result |-> ColumnNotInPermutation(left_column)]
    ELSE IF ~Contains(self.columns, right_column)
    THEN [self |-> self, result |-> ColumnNotInPermutation(right_column)]
    ELSE IF left_row >= self.n \/ right_row >= self.n
    THEN [self |-> self, result |-> BoundsFailure]
    ELSE [self |-> [self EXCEPT !.copies =
                      Append(@, <<Cell(left_column, left_row),
                                  Cell(right_column, right_row)>>)],
          result |-> Ok]

NewAssembly ==
    /\ assembly = None
    /\ \E n \in 0..MaxRow, p_columns \in AsmArguments :
          assembly' = Some(AssemblyFrontNew(n, p_columns))
    /\ UNCHANGED <<copy_call, copy_result, colVars, argVars, evalVars,
                   collVars, csVars, callVars>>

Copy ==
    /\ assembly # None
    /\ \E left_column, right_column \in AsmColumns, left_row, right_row \in Rows :
          LET r == copy(Unwrap(assembly), left_column, left_row,
                        right_column, right_row)
          IN  /\ Len(r.self.copies) <= MaxCopies
              /\ assembly' = Some(r.self)
              /\ copy_result' = Some(r.result)
              /\ copy_call' = Some([left_column |-> left_column,
                                    left_row |-> left_row,
                                    right_column |-> right_column,
                                    right_row |-> right_row])
    /\ UNCHANGED <<colVars, argVars, evalVars, collVars, csVars, callVars>>

InitAsm ==
    /\ IdleAsm
    /\ IdleCol /\ IdleArg /\ IdleEval /\ IdleColl /\ IdleCS /\ IdleCall

NextAsm == NewAssembly \/ Copy

SpecAsm == InitAsm /\ [][NextAsm]_vars

\* C1: copy fails with ColumnNotInPermutation(c) when a column is not among
\* the assembly's columns, c being the left column if it is missing and else
\* the right one, whatever the rows are; it fails with BoundsFailure when
\* both columns take part and a row is >= n; it returns Ok exactly when both
\* columns take part and both rows are < n.  (copy leaves n and the column
\* list as they were, so they are read here after the call.)
C1_CopyErrors ==
    copy_result # None =>
        LET self == Unwrap(assembly)
            call == Unwrap(copy_call)
            res == Unwrap(copy_result)
            lin == Contains(self.columns, call.left_column)
            rin == Contains(self.columns, call.right_column)
            rows_ok == call.left_row < self.n /\ call.right_row < self.n
        IN  /\ ~lin => res = ColumnNotInPermutation(call.left_column)
            /\ (lin /\ ~rin) => res = ColumnNotInPermutation(call.right_column)
            /\ (lin /\ rin /\ ~rows_ok) => res = BoundsFailure
            /\ res = Ok <=> (lin /\ rin /\ rows_ok)

\* Witness of C1: the right column is missing and the left row is out of
\* range, and the call failed with ColumnNotInPermutation(right column).
C1_Witness ==
    /\ copy_result # None
    /\ Contains(Unwrap(assembly).columns, Unwrap(copy_call).left_column)
    /\ ~Contains(Unwrap(assembly).columns, Unwrap(copy_call).right_column)
    /\ Unwrap(copy_call).left_row >= Unwrap(assembly).n
    /\ Unwrap(copy_result) = ColumnNotInPermutation(Unwrap(copy_call).right_column)

\* C24: every error copy returns carries the context that locates the
\* offending call: ColumnNotInPermutation names the offending column, and
\* BoundsFailure names the offending column and row.
C24_ErrorsCarryContext ==
    copy_result # None =>
        LET res == Unwrap(copy_result)
        IN  res.tag = "Err" =>
                /\ "column" \in DOMAIN res
                /\ res.error = "BoundsFailure" => "row" \in DOMAIN res

\* C27: whatever copy calls were made, every recorded copy constraint (l, r)
\* has both columns among the columns the assembly was created with and both
\* rows below n; with n = 0 nothing is ever recorded.  (C28 shows that no
\* copy call changes n or the column list, so they are the values
\* AssemblyFront::new stored.)
C27_RecordedCopiesValid ==
    assembly # None =>
        LET self == Unwrap(assembly)
        IN  /\ \A i \in 1..Len(self.copies) :
                  /\ Contains(self.columns, self.copies[i][1].column)
                  /\ Contains(self.columns, self.copies[i][2].column)
                  /\ self.copies[i][1].row < self.n
                  /\ self.copies[i][2].row < self.n
            /\ self.n = 0 => self.copies = <<>>

\* Witness of C27: a constraint is recorded in an assembly that lacks a
\* column, and the last call, whose right row is out of range while its
\* left row is in range, failed.
C27_Witness ==
    /\ assembly # None /\ copy_result # None
    /\ Len(Unwrap(assembly).copies) >= 1
    /\ Len(Unwrap(assembly).columns) < Cardinality(AsmColumns)
    /\ Unwrap(copy_call).left_row < Unwrap(assembly).n
    /\ Unwrap(copy_call).right_row >= Unwrap(assembly).n
    /\ Unwrap(copy_result) = BoundsFailure

\* C28: a failing copy call leaves the recorded sequence as it was; a
\* successful call appends exactly the pair (Cell{left_column, left_row},
\* Cell{right_column, right_row}) at the end, keeping the earlier pairs and
\* their order and recording repeated and mirrored pairs again; no copy call
\* changes n or the column list.
C28_CopyFrame ==
    [][(assembly # None /\ assembly' # None) =>
          LET before == Unwrap(assembly)
              after == Unwrap(assembly')
              call == Unwrap(copy_call')
              res == Unwrap(copy_result')
          IN  /\ after.n = before.n
              /\ after.columns = before.columns
              /\ res # Ok => after.copies = before.copies
              /\ res = Ok =>
                    after.copies =
                        Append(before.copies,
                               <<Cell(call.left_column, call.left_row),
                                 Cell(call.right_column, call.right_row)>>)]_vars

\* Witness of C28: a pair and then its mirror image were recorded, and the
\* call after them failed, leaving both in place.
C28_Witness ==
    /\ assembly # None /\ copy_result # None
    /\ Len(Unwrap(assembly).copies) = 2
    /\ Unwrap(assembly).copies[1][1] # Unwrap(assembly).copies[1][2]
    /\ Unwrap(assembly).copies[2] =
          <<Unwrap(assembly).copies[1][2], Unwrap(assembly).copies[1][1]>>
    /\ Unwrap(copy_result) # Ok

----------------------------------------------------------------------------
(* Expression algebra (circuit.rs 397-1055).                               *)

\* Bound: the field of the evaluations is GF(FieldPrimes[PrimeIdx]).
PrimeIdx == 2
FieldPrimes == <<2, 3, 5, 7, 11>>
P == FieldPrimes[PrimeIdx]
F == 0..(P - 1)

\* struct FixedQuery / InstanceQuery / AdviceQuery / Challenge; index is the
\* Option<usize> the query collector fills in.
FixedQuery(index, column_index, rotation) ==
    [index |-> index, column_index |-> column_index, rotation |-> rotation]
InstanceQuery(index, column_index, rotation) ==
    [index |-> index, column_index |-> column_index, rotation |-> rotation]
AdviceQuery(index, column_index, rotation, phase) ==
    [index |-> index, column_index |-> column_index, rotation |-> rotation,
     phase |-> phase]
ChallengeOf(index, phase) == [index |-> index, phase |-> phase]

\* enum Expression<F>
Constant(c) == [tag |-> "Constant", c |-> c]
Fixed(query) == [tag |-> "Fixed", query |-> query]
Advice(query) == [tag |-> "Advice", query |-> query]
Instance(query) == [tag |-> "Instance", query |-> query]
Challenge(value) == [tag |-> "Challenge", value |-> value]
Negated(a) == [tag |-> "Negated", a |-> a]
Sum(a, b) == [tag |-> "Sum", a |-> a, b |-> b]
Product(a, b) == [tag |-> "Product", a |-> a, b |-> b]
Scaled(a, f) == [tag |-> "Scaled", a |-> a, f |-> f]

\* Expression::degree
RECURSIVE degree(_)
degree(e) ==
    CASE e.tag = "Constant" -> 0
      [] e.tag = "Fixed" -> 1
      [] e.tag = "Advice" -> 1
      [] e.tag = "Instance" -> 1
      [] e.tag = "Challenge" -> 0
      [] e.tag = "Negated" -> degree(e.a)
      [] e.tag = "Sum" -> Max2(degree(e.a), degree(e.b))
      [] e.tag = "Product" -> degree(e.a) + degree(e.b)
      [] e.tag = "Scaled" -> degree(e.a)

\* Expression::complexity
RECURSIVE complexity(_)
complexity(e) ==
    CASE e.tag = "Constant" -> 0
      [] e.tag = "Fixed" -> 1
      [] e.tag = "Advice" -> 1
      [] e.tag = "Instance" -> 1
      [] e.tag = "Challenge" -> 0
      [] e.tag = "Negated" -> complexity(e.a) + 5
      [] e.tag = "Sum" -> complexity(e.a) + complexity(e.b) + 15
      [] e.tag = "Product" -> complexity(e.a) + complexity(e.b) + 30
      [] e.tag = "Scaled" -> complexity(e.a) + 30

\* Expression::evaluate.  H holds the nine closures, each a function.
RECURSIVE evaluate(_, _)
evaluate(e, H) ==
    CASE e.tag = "Constant" -> H.constant[e.c]
      [] e.tag = "Fixed" -> H.fixed_column[e.query]
      [] e.tag = "Advice" -> H.advice_column[e.query]
      [] e.tag = "Instance" -> H.instance_column[e.query]
      [] e.tag = "Challenge" -> H.challenge[e.value]
      [] e.tag = "Negated" ->
            LET a == evaluate(e.a, H) IN H.negated[a]
      [] e.tag = "Sum" ->
            LET a == evaluate(e.a, H)
                b == evaluate(e.b, H)
            IN  H.sum[a, b]
      [] e.tag = "Product" ->
            LET a == evaluate(e.a, H)
                b == evaluate(e.b, H)
            IN  H.product[a, b]
      [] e.tag = "Scaled" ->
            LET a == evaluate(e.a, H) IN H.scaled[a, e.f]

\* A plausible slip: the product is cut short whenever the cheaper operand
\* differs from the sentinel.
RECURSIVE evaluate_lazy_inverted(_, _, _)
evaluate_lazy_inverted(e, H, zero) ==
    CASE e.tag = "Constant" -> H.constant[e.c]
      [] e.tag = "Fixed" -> H.fixed_column[e.query]
      [] e.tag = "Advice" -> H.advice_column[e.query]
      [] e.tag = "Instance" -> H.instance_column[e.query]
      [] e.tag = "Challenge" -> H.challenge[e.value]
      [] e.tag = "Negated" ->
            LET a == evaluate_lazy_inverted(e.a, H, zero) IN H.negated[a]
      [] e.tag = "Sum" ->
            LET a == evaluate_lazy_inverted(e.a, H, zero)
                b == evaluate_lazy_inverted(e.b, H, zero)
            IN  H.sum[a, b]
      [] e.tag = "Product" ->
            LET ab == IF complexity(e.a) <= complexity(e.b)
                      THEN <<e.a, e.b>> ELSE <<e.b, e.a>>
                a == evaluate_lazy_inverted(ab[1], H, zero)
            IN  IF a # zero THEN a
                ELSE LET b == evaluate_lazy_inverted(ab[2], H, zero)
                     IN  H.product[a, b]
      [] e.tag = "Scaled" ->
            LET a == evaluate_lazy_inverted(e.a, H, zero) IN H.scaled[a, e.f]

\* Expression::evaluate_lazy
RECURSIVE evaluate_lazy(_, _, _)
evaluate_lazy(e, H, zero) ==
    CASE e.tag = "Constant" -> H.constant[e.c]
      [] e.tag = "Fixed" -> H.fixed_column[e.query]
      [] e.tag = "Advice" -> H.advice_column[e.query]
      [] e.tag = "Instance" -> H.instance_column[e.query]
      [] e.tag = "Challenge" -> H.challenge[e.value]
      [] e.tag = "Negated" ->
            LET a == evaluate_lazy(e.a, H, zero) IN H.negated[a]
      [] e.tag = "Sum" ->
            LET a == evaluate_lazy(e.a, H, zero)
                b == evaluate_lazy(e.b, H, zero)
            IN  H.sum[a, b]
      [] e.tag = "Product" ->
            LET ab == IF complexity(e.a) <= complexity(e.b)
                      THEN <<e.a, e.b>> ELSE <<e.b, e.a>>
                a == evaluate_lazy(ab[1], H, zero)
            IN  IF a = zero THEN a
                ELSE LET b == evaluate_lazy(ab[2], H, zero)
                     IN  H.product[a, b]
      [] e.tag = "Scaled" ->
            LET a == evaluate_lazy(e.a, H, zero) IN H.scaled[a, e.f]

\* The queries and the challenge of the evaluated expressions, as
\* Column::query_cell and Challenge::expr build them (no query index yet).
FixedLeaf == Fixed(FixedQuery(None, 0, 0))
AdviceLeaf == Advice(AdviceQuery(None, 0, 0, FirstPhase))
InstanceLeaf == Instance(InstanceQuery(None, 0, 0))
ChallengeLeaf == Challenge(ChallengeOf(0, FirstPhase))
VarLeaves == {FixedLeaf, AdviceLeaf, InstanceLeaf, ChallengeLeaf}
EvalLeaves == {Constant(0), Constant(1)} \cup VarLeaves

\* The evaluated expressions: every operator over the leaves, and every
\* operator over those with a query on the other side.
EvalLevel1 ==
    EvalLeaves
    \cup {Negated(a) : a \in EvalLeaves}
    \cup {Scaled(a, f) : a \in VarLeaves, f \in F}
    \cup {Sum(a, b) : a, b \in EvalLeaves}
    \cup {Product(a, b) : a, b \in EvalLeaves}
EvalExprs ==
    EvalLevel1
    \cup {Negated(a) : a \in EvalLevel1}
    \cup {Scaled(a, P - 1) : a \in EvalLevel1}
    \cup {Sum(a, FixedLeaf) : a \in EvalLevel1}
    \cup {Product(a, FixedLeaf) : a \in EvalLevel1}
    \cup {Product(FixedLeaf, a) : a \in EvalLevel1}

\* An assignment of field values to the queries and the challenge.
Envs == [VarLeaves -> F]

\* The closures of the evaluation over the field: a constant is itself, a
\* query or challenge has its assigned value, the rest is arithmetic mod P.
FieldHandlers(values) ==
    [constant |-> [c \in F |-> c],
     fixed_column |-> [q \in {l.query : l \in {FixedLeaf}} |-> values[Fixed(q)]],
     advice_column |-> [q \in {l.query : l \in {AdviceLeaf}} |-> values[Advice(q)]],
     instance_column |-> [q \in {l.query : l \in {InstanceLeaf}} |-> values[Instance(q)]],
     challenge |-> [c \in {l.value : l \in {ChallengeLeaf}} |-> values[Challenge(c)]],
     negated |-> [a \in F |-> (P - a) % P],
     sum |-> [a, b \in F |-> (a + b) % P],
     product |-> [a, b \in F |-> (a * b) % P],
     scaled |-> [a, f \in F |-> (a * f) % P]]

\* One expression is evaluated with both evaluators over the field.
Evaluate ==
    /\ expr # None
    /\ eval_out = None
    /\ \E values \in Envs :
          /\ env' = Some(values)
          /\ eval_out' = Some([eager |-> evaluate(Unwrap(expr), FieldHandlers(values)),
                               lazy |-> evaluate_lazy(Unwrap(expr),
                                                      FieldHandlers(values), 0)])
    /\ UNCHANGED <<expr, colVars, argVars, asmVars, collVars, csVars, callVars>>

InitEval ==
    /\ \E e \in EvalExprs : expr = Some(e)
    /\ env = None /\ eval_out = None
    /\ IdleCol /\ IdleArg /\ IdleAsm /\ IdleColl /\ IdleCS /\ IdleCall

NextEval == Evaluate

SpecEval == InitEval /\ [][NextEval]_vars

\* C4: over the field, evaluate_lazy with the zero sentinel 0 returns the
\* value evaluate returns, for every expression and every assignment.
C4_LazyEqualsEager ==
    eval_out # None => Unwrap(eval_out).lazy = Unwrap(eval_out).eager

\* Witness of C4: a product whose cheaper operand is the right one and
\* evaluates to zero while the left one does not: the lazy evaluator cuts the
\* product short and both evaluators return zero.
C4_Witness ==
    /\ eval_out # None
    /\ Unwrap(expr).tag = "Product"
    /\ complexity(Unwrap(expr).a) > complexity(Unwrap(expr).b)
    /\ evaluate(Unwrap(expr).b, FieldHandlers(Unwrap(env))) = 0
    /\ evaluate(Unwrap(expr).a, FieldHandlers(Unwrap(env))) # 0
    /\ Unwrap(eval_out).lazy = 0
    /\ Unwrap(eval_out).eager = 0

----------------------------------------------------------------------------
(* Query collector (circuit.rs 1198-1555).                                 *)

\* The column types of the narrowed columns Column<Advice>, Column<Fixed> and
\* Column<Instance>: struct Advice {phase}, struct Fixed, struct Instance.
AdviceT(phase) == [phase |-> phase]
FixedT == [unit |-> "Fixed"]
InstanceT == [unit |-> "Instance"]

\* struct FixedQueryMid / InstanceQueryMid / AdviceQueryMid
FixedQueryMid(column_index, rotation) ==
    [column_index |-> column_index, rotation |-> rotation]
InstanceQueryMid(column_index, rotation) ==
    [column_index |-> column_index, rotation |-> rotation]
AdviceQueryMid(column_index, rotation, phase) ==
    [column_index |-> column_index, rotation |-> rotation, phase |-> phase]

\* Rotation::cur
RotationCur == 0

\* HashMap: a function from its keys; entry(k) finds a key of its domain.
EmptyMap == [k \in {} |-> 0]
MapInsert(m, k, v) == [x \in DOMAIN m \cup {k} |-> IF x = k THEN v ELSE m[x]]

\* The empty QueriesMap collect_queries starts from.
QueriesMapNew ==
    [advice_map |-> EmptyMap, instance_map |-> EmptyMap, fixed_map |-> EmptyMap,
     advice |-> <<>>, instance |-> <<>>, fixed |-> <<>>]

\* A plausible slip: the query is pushed without looking it up first.
add_advice_always_push(self, col, rot) ==
    [self |-> [self EXCEPT !.advice = Append(@, <<col, rot>>),
                           !.advice_map = MapInsert(@, <<col, rot>>, Len(self.advice))],
     index |-> Len(self.advice)]

\* QueriesMap::add_advice: the map after the call and the index returned.
add_advice(self, col, rot) ==
    IF <<col, rot>> \in DOMAIN self.advice_map
    THEN [self |-> self, index |-> self.advice_map[<<col, rot>>]]
    ELSE LET pushed == Append(self.advice, <<col, rot>>)
         IN  [self |-> [self EXCEPT !.advice = pushed,
                                    !.advice_map =
                                        MapInsert(@, <<col, rot>>, Len(pushed) - 1)],
              index |-> Len(pushed) - 1]

\* QueriesMap::add_instance
add_instance(self, col, rot) ==
    IF <<col, rot>> \in DOMAIN self.instance_map
    THEN [self |-> self, index |-> self.instance_map[<<col, rot>>]]
    ELSE LET pushed == Append(self.instance, <<col, rot>>)
         IN  [self |-> [self EXCEPT !.instance = pushed,
                                    !.instance_map =
                                        MapInsert(@, <<col, rot>>, Len(pushed) - 1)],
              index |-> Len(pushed) - 1]

\* QueriesMap::add_fixed
add_fixed(self, col, rot) ==
    IF <<col, rot>> \in DOMAIN self.fixed_map
    THEN [self |-> self, index |-> self.fixed_map[<<col, rot>>]]
    ELSE LET pushed == Append(self.fixed, <<col, rot>>)
         IN  [self |-> [self EXCEPT !.fixed = pushed,
                                    !.fixed_map =
                                        MapInsert(@, <<col, rot>>, Len(pushed) - 1)],
              index |-> Len(pushed) - 1]

\* QueriesMap::as_expression: the map after the call and the Expression.
RECURSIVE as_expression(_, _)
as_expression(self, e) ==
    CASE e.tag = "Constant" -> [self |-> self, expr |-> Constant(e.c)]
      [] e.tag = "Fixed" ->
            LET r == add_fixed(self, Column(e.query.column_index, FixedT),
                               e.query.rotation)
            IN  [self |-> r.self,
                 expr |-> Fixed(FixedQuery(Some(r.index), e.query.column_index,
                                           e.query.rotation))]
      [] e.tag = "Advice" ->
            LET r == add_advice(self, Column(e.query.column_index,
                                             AdviceT(e.query.phase)),
                                e.query.rotation)
            IN  [self |-> r.self,
                 expr |-> Advice(AdviceQuery(Some(r.index), e.query.column_index,
                                             e.query.rotation, e.query.phase))]
      [] e.tag = "Instance" ->
            LET r == add_instance(self, Column(e.query.column_index, InstanceT),
                                  e.query.rotation)
            IN  [self |-> r.self,
                 expr |-> Instance(InstanceQuery(Some(r.index), e.query.column_index,
                                                 e.query.rotation))]
      [] e.tag = "Challenge" -> [self |-> self, expr |-> Challenge(e.value)]
      [] e.tag = "Negated" ->
            LET a == as_expression(self, e.a)
            IN  [self |-> a.self, expr |-> Negated(a.expr)]
      [] e.tag = "Sum" ->
            LET lhs == as_expression(self, e.a)
                rhs == as_expression(lhs.self, e.b)
            IN  [self |-> rhs.self, expr |-> Sum(lhs.expr, rhs.expr)]
      [] e.tag = "Product" ->
            LET lhs == as_expression(self, e.a)
                rhs == as_expression(lhs.self, e.b)
            IN  [self |-> rhs.self, expr |-> Product(lhs.expr, rhs.expr)]
      [] e.tag = "Scaled" ->
            LET a == as_expression(self, e.a)
            IN  [self |-> a.self, expr |-> Scaled(a.expr, e.f)]

\* exprs.iter().map(|e| queries.as_expression(e)).collect()
RECURSIVE as_expressions(_, _)
as_expressions(queries, exprs) ==
    IF Len(exprs) = 0 THEN [queries |-> queries, exprs |-> <<>>]
    ELSE LET head == as_expression(queries, Head(exprs))
             rest == as_expressions(head.self, Tail(exprs))
         IN  [queries |-> rest.queries, exprs |-> <<head.expr>> \o rest.exprs]

\* ConstraintSystemV2Backend::collect_queries_gates over the gates given.
RECURSIVE collect_queries_gates(_, _)
collect_queries_gates(gates, queries) ==
    IF Len(gates) = 0 THEN [queries |-> queries, gates |-> <<>>]
    ELSE LET gate == Head(gates)
             poly == as_expression(queries, gate.poly)
             rest == collect_queries_gates(Tail(gates), poly.self)
         IN  [queries |-> rest.queries,
              gates |-> <<[name |-> gate.name, constraint_names |-> <<>>,
                           polys |-> <<poly.expr>>, queried_cells |-> <<>>]>>
                        \o rest.gates]

\* A plausible slip: the table expressions are collected before the inputs.
RECURSIVE collect_queries_lookups_table_first(_, _)
collect_queries_lookups_table_first(lookups, queries) ==
    IF Len(lookups) = 0 THEN [queries |-> queries, lookups |-> <<>>]
    ELSE LET lookup == Head(lookups)
             table == as_expressions(queries, lookup.table_expressions)
             input == as_expressions(table.queries, lookup.input_expressions)
             rest == collect_queries_lookups_table_first(Tail(lookups), input.queries)
         IN  [queries |-> rest.queries,
              lookups |-> <<[name |-> lookup.name,
                             input_expressions |-> input.exprs,
                             table_expressions |-> table.exprs]>> \o rest.lookups]

\* ConstraintSystemV2Backend::collect_queries_lookups over the lookups given.
RECURSIVE collect_queries_lookups(_, _)
collect_queries_lookups(lookups, queries) ==
    IF Len(lookups) = 0 THEN [queries |-> queries, lookups |-> <<>>]
    ELSE LET lookup == Head(lookups)
             input == as_expressions(queries, lookup.input_expressions)
             table == as_expressions(input.queries, lookup.table_expressions)
             rest == collect_queries_lookups(Tail(lookups), table.queries)
         IN  [queries |-> rest.queries,
              lookups |-> <<[name |-> lookup.name,
                             input_expressions |-> input.exprs,
                             table_expressions |-> table.exprs]>> \o rest.lookups]

\* ConstraintSystemV2Backend::collect_queries_shuffles over the shuffles given.
RECURSIVE collect_queries_shuffles(_, _)
collect_queries_shuffles(shuffles, queries) ==
    IF Len(shuffles) = 0 THEN [queries |-> queries, shuffles |-> <<>>]
    ELSE LET shuffle == Head(shuffles)
             input == as_expressions(queries, shuffle.input_expressions)
             shuf == as_expressions(input.queries, shuffle.shuffle_expressions)
             rest == collect_queries_shuffles(Tail(shuffles), shuf.queries)
         IN  [queries |-> rest.queries,
              shuffles |-> <<[name |-> shuffle.name,
                              input_expressions |-> input.exprs,
                              shuffle_expressions |-> shuf.exprs]>> \o rest.shuffles]

\* A plausible slip: the permutation columns are queried at the next row.
RECURSIVE collect_queries_permutation_next(_, _)
collect_queries_permutation_next(perm_columns, queries) ==
    IF Len(perm_columns) = 0 THEN queries
    ELSE LET column == Head(perm_columns)
             kind == column.column_type.kind
             added_q ==
                CASE kind = "Instance" ->
                        add_instance(queries, Column(column.index, InstanceT), 1)
                  [] kind = "Fixed" ->
                        add_fixed(queries, Column(column.index, FixedT), 1)
                  [] kind = "Advice" ->
                        add_advice(queries,
                                   Column(column.index,
                                          AdviceT(column.column_type.phase)), 1)
         IN  collect_queries_permutation_next(Tail(perm_columns), added_q.self)

\* The loop of collect_queries over the permutation columns (1528-1540).
RECURSIVE collect_queries_permutation(_, _)
collect_queries_permutation(perm_columns, queries) ==
    IF Len(perm_columns) = 0 THEN queries
    ELSE LET column == Head(perm_columns)
             kind == column.column_type.kind
             added_q ==
                CASE kind = "Instance" ->
                        add_instance(queries, Column(column.index, InstanceT),
                                     RotationCur)
                  [] kind = "Fixed" ->
                        add_fixed(queries, Column(column.index, FixedT), RotationCur)
                  [] kind = "Advice" ->
                        add_advice(queries,
                                   Column(column.index,
                                          AdviceT(column.column_type.phase)),
                                   RotationCur)
         IN  collect_queries_permutation(Tail(perm_columns), added_q.self)

\* A plausible slip: a column is counted once however many queries it has.
RECURSIVE count_advice_queries_once(_, _)
count_advice_queries_once(advice, num_advice_queries) ==
    IF Len(advice) = 0 THEN [panicked |-> FALSE, v |-> num_advice_queries]
    ELSE LET i == Head(advice)[1].index
         IN  IF i >= Len(num_advice_queries) THEN [panicked |-> TRUE, v |-> <<>>]
             ELSE count_advice_queries_once(
                      Tail(advice), [num_advice_queries EXCEPT ![i + 1] = 1])

\* The counting loop of collect_queries (1542-1545); indexing the vector
\* past its end panics.
RECURSIVE count_advice_queries(_, _)
count_advice_queries(advice, num_advice_queries) ==
    IF Len(advice) = 0 THEN [panicked |-> FALSE, v |-> num_advice_queries]
    ELSE LET i == Head(advice)[1].index
         IN  IF i >= Len(num_advice_queries) THEN [panicked |-> TRUE, v |-> <<>>]
             ELSE count_advice_queries(
                      Tail(advice),
                      [num_advice_queries EXCEPT ![i + 1] = @ + 1])

\* Bound: the RandomState values a run's HashMap::new() may draw.
MaxSeed == 1
RandomStates == 0..MaxSeed

\* A HashMap's keys in its iteration order, which its RandomState decides.
MapKeysInOrder(vec, random_state) ==
    IF random_state = 0 THEN vec
    ELSE [i \in 1..Len(vec) |-> vec[Len(vec) + 1 - i]]

\* A plausible slip: the advice queries are returned as the keys of
\* advice_map, in the iteration order of the map.
collect_queries_from_map_keys(self, random_state) ==
    LET queries0 == [advice_map |-> EmptyMap, instance_map |-> EmptyMap,
                     fixed_map |-> EmptyMap, advice |-> <<>>, instance |-> <<>>,
                     fixed |-> <<>>, random_state |-> random_state]
        g == collect_queries_gates(self.gates, queries0)
        l == collect_queries_lookups(self.lookups, g.queries)
        s == collect_queries_shuffles(self.shuffles, l.queries)
        queries == collect_queries_permutation(self.permutation, s.queries)
        counted == count_advice_queries(queries.advice,
                                        [i \in 1..self.num_advice_columns |-> 0])
    IN  IF counted.panicked THEN [panicked |-> TRUE]
        ELSE [panicked |-> FALSE,
              queries |-> [advice |-> MapKeysInOrder(queries.advice,
                                                     queries.random_state),
                           instance |-> queries.instance,
                           fixed |-> queries.fixed,
                           num_advice_queries |-> counted.v],
              gates |-> g.gates, lookups |-> l.lookups, shuffles |-> s.shuffles]

\* ConstraintSystemV2Backend::collect_queries.  random_state is what
\* HashMap::new() drew for the maps of this run: it decides the iteration
\* order of the maps and nothing else.
collect_queries(self, random_state) ==
    LET queries0 == [advice_map |-> EmptyMap, instance_map |-> EmptyMap,
                     fixed_map |-> EmptyMap, advice |-> <<>>, instance |-> <<>>,
                     fixed |-> <<>>, random_state |-> random_state]
        g == collect_queries_gates(self.gates, queries0)
        l == collect_queries_lookups(self.lookups, g.queries)
        s == collect_queries_shuffles(self.shuffles, l.queries)
        queries == collect_queries_permutation(self.permutation, s.queries)
        counted == count_advice_queries(queries.advice,
                                        [i \in 1..self.num_advice_columns |-> 0])
    IN  IF counted.panicked THEN [panicked |-> TRUE]
        ELSE [panicked |-> FALSE,
              queries |-> [advice |-> queries.advice,
                           instance |-> queries.instance,
                           fixed |-> queries.fixed,
                           num_advice_queries |-> counted.v],
              gates |-> g.gates, lookups |-> l.lookups, shuffles |-> s.shuffles]

\* Bound: the gates, lookups, shuffles and permutation columns of one
\* backend constraint system, taken together.
MaxItems == 3
\* Bound: the largest num_advice_columns.
MaxAdviceColumns == 2

\* The mid-level queries of the collected constraint systems.
qA0 == Advice(AdviceQueryMid(0, 0, FirstPhase))
qA1 == Advice(AdviceQueryMid(0, 1, FirstPhase))
qA2 == Advice(AdviceQueryMid(1, 0, SecondPhase))
qA0p == Advice(AdviceQueryMid(0, 0, SecondPhase))
qF0 == Fixed(FixedQueryMid(0, 0))
qF1 == Fixed(FixedQueryMid(1, 0))
qI0 == Instance(InstanceQueryMid(0, 0))
qI1 == Instance(InstanceQueryMid(0, -1))

\* struct GateV2Backend, lookup::ArgumentV2, shuffle::ArgumentV2
GateV2Backend(name, poly) == [name |-> name, poly |-> poly]
LookupV2(name, input_expressions, table_expressions) ==
    [name |-> name, input_expressions |-> input_expressions,
     table_expressions |-> table_expressions]
ShuffleV2(name, input_expressions, shuffle_expressions) ==
    [name |-> name, input_expressions |-> input_expressions,
     shuffle_expressions |-> shuffle_expressions]

\* The gates, lookups, shuffles and permutation columns they are made of.
CollGates ==
    {GateV2Backend("gate", poly) : poly \in
        {qA0,
         Sum(qA1, qA0),
         Product(qF0, qA1),
         Scaled(Negated(qI0), 2),
         Sum(Product(qA2, Challenge(ChallengeOf(0, FirstPhase))), Constant(1)),
         Product(qA0p, qF0)}}
CollLookups ==
    {LookupV2("lookup", input, table) :
        input \in {<<qA0>>, <<qF1, qA1>>, <<Sum(qA2, qI0)>>},
        table \in {<<qF0>>, <<qA1, qF1>>}}
CollShuffles ==
    {ShuffleV2("shuffle", input, shuf) :
        input \in {<<qA1>>, <<qI1, qA2>>},
        shuf \in {<<qA0>>, <<qI0, qF0>>}}
CollPermColumns == {Column(0, AnyAdvice(FirstPhase)), Column(0, AnyFixed),
                    Column(0, AnyInstance)}

\* struct ConstraintSystemV2Backend: the fields collect_queries reads.
ConstraintSystemV2Backend(num_advice_columns, gates, permutation, lookups, shuffles) ==
    [num_advice_columns |-> num_advice_columns, gates |-> gates,
     permutation |-> permutation, lookups |-> lookups, shuffles |-> shuffles]

CollectQueries ==
    /\ cs2 # None
    /\ collected = None
    /\ \E random_state \in RandomStates :
          collected' = Some(collect_queries(Unwrap(cs2), random_state))
    /\ UNCHANGED <<cs2, colVars, argVars, asmVars, evalVars, csVars, callVars>>

\* A second run of collect_queries on the same constraint system.
CollectQueriesAgain ==
    /\ collected # None
    /\ fn_out = None
    /\ \E random_state \in RandomStates :
          fn_out' = Some(collect_queries(Unwrap(cs2), random_state))
    /\ UNCHANGED <<fn_in, collVars, colVars, argVars, asmVars, evalVars, csVars>>

InitColl ==
    /\ \E ng \in 0..MaxItems :
       \E nl \in 0..(MaxItems - ng) :
       \E ns \in 0..(MaxItems - ng - nl) :
       \E np \in 0..(MaxItems - ng - nl - ns) :
       \E gates \in [1..ng -> CollGates], lookups \in [1..nl -> CollLookups],
          shuffles \in [1..ns -> CollShuffles],
          permutation \in [1..np -> CollPermColumns],
          num_advice_columns \in 1..MaxAdviceColumns :
            cs2 = Some(ConstraintSystemV2Backend(num_advice_columns, gates,
                                                 permutation, lookups, shuffles))
    /\ collected = None
    /\ IdleCol /\ IdleArg /\ IdleAsm /\ IdleEval /\ IdleCS /\ IdleCall

NextColl == CollectQueries \/ CollectQueriesAgain

SpecColl == InitColl /\ [][NextColl]_vars

\* The query leaves of an expression, as a set.
RECURSIVE QueryLeaves(_)
QueryLeaves(e) ==
    CASE e.tag \in {"Fixed", "Advice", "Instance"} -> {e}
      [] e.tag \in {"Constant", "Challenge"} -> {}
      [] e.tag \in {"Negated", "Scaled"} -> QueryLeaves(e.a)
      [] e.tag \in {"Sum", "Product"} -> QueryLeaves(e.a) \cup QueryLeaves(e.b)

\* The query leaves of an expression from left to right.
RECURSIVE LeafSeq(_)
LeafSeq(e) ==
    CASE e.tag \in {"Fixed", "Advice", "Instance"} -> <<e>>
      [] e.tag \in {"Constant", "Challenge"} -> <<>>
      [] e.tag \in {"Negated", "Scaled"} -> LeafSeq(e.a)
      [] e.tag \in {"Sum", "Product"} -> LeafSeq(e.a) \o LeafSeq(e.b)

RECURSIVE Concat(_)
Concat(ss) == IF Len(ss) = 0 THEN <<>> ELSE Head(ss) \o Concat(Tail(ss))

Elems(s) == {s[i] : i \in 1..Len(s)}

\* The (column, rotation) entry a query leaf stands for in the array of its kind.
EntryOf(leaf) ==
    CASE leaf.tag = "Advice" ->
            <<Column(leaf.query.column_index, AdviceT(leaf.query.phase)),
              leaf.query.rotation>>
      [] leaf.tag = "Fixed" ->
            <<Column(leaf.query.column_index, FixedT), leaf.query.rotation>>
      [] leaf.tag = "Instance" ->
            <<Column(leaf.query.column_index, InstanceT), leaf.query.rotation>>

\* The array of the kind of a leaf, in the queries collected.
ArrayOf(queries, tag) ==
    CASE tag = "Advice" -> queries.advice
      [] tag = "Fixed" -> queries.fixed
      [] tag = "Instance" -> queries.instance

\* Every rewritten expression of a collection, as a set.
RewrittenExprs(r) ==
    UNION ({Elems(g.polys) : g \in Elems(r.gates)}
           \cup {Elems(l.input_expressions) \cup Elems(l.table_expressions) :
                    l \in Elems(r.lookups)}
           \cup {Elems(h.input_expressions) \cup Elems(h.shuffle_expressions) :
                    h \in Elems(r.shuffles)})

Collected == Unwrap(collected)
Returned == collected # None /\ ~Collected.panicked

\* C2: after collect_queries no query array repeats a (column, rotation)
\* entry (an advice column with its phase), and every query leaf of every
\* rewritten gate, lookup and shuffle expression carries Some(i) with entry i
\* of the array of its kind holding the leaf's column index, rotation and
\* (for advice) phase.
C2_DenseIndices ==
    Returned =>
        /\ NoDup(Collected.queries.advice)
        /\ NoDup(Collected.queries.instance)
        /\ NoDup(Collected.queries.fixed)
        /\ \A e \in RewrittenExprs(Collected) :
           \A leaf \in QueryLeaves(e) :
              /\ leaf.query.index # None
              /\ LET i == Unwrap(leaf.query.index)
                     array == ArrayOf(Collected.queries, leaf.tag)
                 IN  /\ i \in 0..(Len(array) - 1)
                     /\ array[i + 1] = EntryOf(leaf)

\* Witness of C2: the same advice query is referenced by a gate and by a
\* lookup, a query of the same column and rotation in another phase is
\* referenced too, and the collection returned.
C2_Witness ==
    /\ Returned
    /\ Len(Collected.gates) > 0
    /\ Len(Collected.lookups) > 0
    /\ \E g \in Elems(Collected.gates), l \in Elems(Collected.lookups) :
       \E x \in QueryLeaves(g.polys[1]), y \in QueryLeaves(l.input_expressions[1]) :
          x.tag = "Advice" /\ x = y
    /\ \E i, j \in 1..Len(Collected.queries.advice) :
          /\ Collected.queries.advice[i][1].index = Collected.queries.advice[j][1].index
          /\ Collected.queries.advice[i][2] = Collected.queries.advice[j][2]
          /\ i # j

\* The query leaves of a backend constraint system in the order of the
\* traversal, stage by stage; the permutation columns count as queries at
\* the current row.
GateLeaves(c) == Concat([i \in 1..Len(c.gates) |-> LeafSeq(c.gates[i].poly)])
LookupLeaves(c) ==
    Concat([i \in 1..Len(c.lookups) |->
                Concat([j \in 1..Len(c.lookups[i].input_expressions) |->
                            LeafSeq(c.lookups[i].input_expressions[j])])
                \o Concat([j \in 1..Len(c.lookups[i].table_expressions) |->
                            LeafSeq(c.lookups[i].table_expressions[j])])])
ShuffleLeaves(c) ==
    Concat([i \in 1..Len(c.shuffles) |->
                Concat([j \in 1..Len(c.shuffles[i].input_expressions) |->
                            LeafSeq(c.shuffles[i].input_expressions[j])])
                \o Concat([j \in 1..Len(c.shuffles[i].shuffle_expressions) |->
                            LeafSeq(c.shuffles[i].shuffle_expressions[j])])])
PermutationLeaves(c) ==
    [i \in 1..Len(c.permutation) |->
        LET column == c.permutation[i]
        IN  CASE column.column_type.kind = "Advice" ->
                    Advice(AdviceQueryMid(column.index, RotationCur,
                                          column.column_type.phase))
              [] column.column_type.kind = "Fixed" ->
                    Fixed(FixedQueryMid(column.index, RotationCur))
              [] column.column_type.kind = "Instance" ->
                    Instance(InstanceQueryMid(column.index, RotationCur))]
StageLeaves(c) ==
    <<GateLeaves(c), LookupLeaves(c), ShuffleLeaves(c), PermutationLeaves(c)>>

\* The entries of one kind among a sequence of leaves, in order.
RECURSIVE EntriesOfKind(_, _)
EntriesOfKind(leaves, tag) ==
    IF Len(leaves) = 0 THEN <<>>
    ELSE (IF Head(leaves).tag = tag THEN <<EntryOf(Head(leaves))>> ELSE <<>>)
         \o EntriesOfKind(Tail(leaves), tag)

\* The entries of one kind that each of the four stages references.
StageEntries(c, tag) ==
    LET stages == StageLeaves(c)
    IN  [k \in 1..4 |-> EntriesOfKind(stages[k], tag)]

\* The first of the four stages that references an entry.
FirstStage(entries, entry) ==
    CHOOSE k \in 1..4 :
        /\ entry \in Elems(entries[k])
        /\ \A j \in 1..(k - 1) : entry \notin Elems(entries[j])

\* C3: the dense indices follow the first occurrences along the traversal
\* gates, lookups (inputs then table), shuffles (inputs then shuffle
\* expressions), permutation columns, left operand before right; so within
\* a kind a query first referenced at an earlier stage has a smaller index
\* than one first referenced at a later stage.
C3_FirstSeenOrder ==
    Returned =>
        \A tag \in {"Advice", "Fixed", "Instance"} :
            LET array == ArrayOf(Collected.queries, tag)
                entries == StageEntries(Unwrap(cs2), tag)
            IN  /\ array = FirstOccurrences(Concat(entries))
                /\ \A i, j \in 1..Len(array) :
                      FirstStage(entries, array[i]) < FirstStage(entries, array[j])
                          => i < j

\* Witness of C3: three advice queries, the first referenced by a gate, the
\* second first referenced by a lookup and the third only by the
\* permutation argument, indexed in that order.
C3_Witness ==
    /\ Returned
    /\ LET array == Collected.queries.advice
           entries == StageEntries(Unwrap(cs2), "Advice")
       IN  \E i, j, k \in 1..Len(array) :
              /\ i < j /\ j < k
              /\ FirstStage(entries, array[i]) = 1
              /\ FirstStage(entries, array[j]) = 2
              /\ FirstStage(entries, array[k]) = 4

\* C15: two runs of collect_queries on the same backend constraint system
\* return the same advice, instance and fixed query arrays, the same
\* rewritten expressions (so the same index in every leaf) and the same
\* num_advice_queries, whatever the iteration order of the hash maps.
C15_Deterministic ==
    (collected # None /\ fn_out # None) => Unwrap(fn_out) = Collected

\* Witness of C15: two runs that returned, with at least two advice queries
\* and a rewritten gate.
C15_Witness ==
    /\ Returned
    /\ fn_out # None
    /\ ~Unwrap(fn_out).panicked
    /\ Len(Unwrap(fn_out).queries.advice) >= 2
    /\ Len(Unwrap(fn_out).gates) >= 1

\* The sum of a sequence of naturals.
RECURSIVE SeqSum(_)
SeqSum(q) == IF Len(q) = 0 THEN 0 ELSE Head(q) + SeqSum(Tail(q))

\* C16: num_advice_queries has num_advice_columns entries; entry c is the
\* number of entries of the advice query array whose column index is c
\* (0 for a column never queried), and the entries sum to the length of the
\* array.
C16_AdviceQueryCounts ==
    Returned =>
        LET counts == Collected.queries.num_advice_queries
            advice == Collected.queries.advice
        IN  /\ Len(counts) = Unwrap(cs2).num_advice_columns
            /\ \A c \in 1..Len(counts) :
                  counts[c] = Cardinality({i \in 1..Len(advice) :
                                              advice[i][1].index = c - 1})
            /\ SeqSum(counts) = Len(advice)

\* Witness of C16: two advice columns, one with two queries and one with
\* none.
C16_Witness ==
    /\ Returned
    /\ Collected.queries.num_advice_queries = <<2, 0>>

\* C17: every permutation column has its query at rotation 0 exactly once in
\* the array of its kind; where a gate, lookup or shuffle queried it already
\* that entry is the one, and nothing is added, and otherwise the entry comes
\* after every query of the gates, lookups and shuffles.
C17_PermutationQueries ==
    Returned =>
        \A tag \in {"Advice", "Fixed", "Instance"} :
            LET array == ArrayOf(Collected.queries, tag)
                entries == StageEntries(Unwrap(cs2), tag)
                before == FirstOccurrences(entries[1] \o entries[2] \o entries[3])
                fresh == Elems(entries[4]) \ Elems(before)
            IN  /\ \A entry \in Elems(entries[4]) :
                      /\ entry[2] = 0
                      /\ Cardinality({i \in 1..Len(array) : array[i] = entry}) = 1
                      /\ entry \in Elems(before) =>
                            \E i \in 1..Len(before) :
                                array[i] = entry /\ before[i] = entry
                      /\ entry \notin Elems(before) =>
                            \E i \in (Len(before) + 1)..Len(array) : array[i] = entry
                /\ Len(array) = Len(before) + Cardinality(fresh)
                /\ SubSeq(array, 1, Len(before)) = before

\* Witness of C17: a permutation column queried by a gate at rotation 0
\* already, and one queried by the permutation alone in a kind the gates
\* query as well.
C17_Witness ==
    /\ Returned
    /\ \E tag \in {"Advice", "Fixed", "Instance"} :
          LET entries == StageEntries(Unwrap(cs2), tag)
          IN  \E entry \in Elems(entries[4]) : entry \in Elems(entries[1])
    /\ \E tag \in {"Advice", "Fixed", "Instance"} :
          LET entries == StageEntries(Unwrap(cs2), tag)
          IN  /\ Len(entries[1]) > 0
              /\ \E entry \in Elems(entries[4]) :
                    entry \notin Elems(entries[1] \o entries[2] \o entries[3])

-----------------------------------------------------------------------------
(* ConstraintSystem metrics (circuit.rs 1560-1887).                        *)

\* Bound: the gates, lookups, shuffles and advice columns of one constraint
\* system, taken together.
MaxCSItems == 3
\* Bound: the largest required degree of a lookup or shuffle argument.
MaxArgDegree == 5
\* Bound: the largest explicit minimum_degree.
MaxMinDegree == 4
\* Bound: the largest number of queries of one advice column.
MaxCount == 4

\* struct ConstraintSystem: the fields degree, blinding_factors and
\* minimum_rows read.
ConstraintSystem(gates, num_advice_queries, permutation, lookups, shuffles, minimum_degree) ==
    [gates |-> gates, num_advice_queries |-> num_advice_queries,
     permutation |-> permutation, lookups |-> lookups, shuffles |-> shuffles,
     minimum_degree |-> minimum_degree]

\* lookup::Argument and shuffle::Argument live outside these sources: an
\* argument is known here by the degree its required_degree() reports.
LookupArgument(d) == [name |-> "lookup", required_degree |-> d]
ShuffleArgument(d) == [name |-> "shuffle", required_degree |-> d]
lookup_required_degree(l) == l.required_degree
shuffle_required_degree(l) == l.required_degree

\* Gate::polynomials
polynomials(gate) == gate.polys

\* The degrees of the polynomials of the gates: the flat_map of degree().
RECURSIVE gate_degrees(_)
gate_degrees(gates) ==
    IF Len(gates) = 0 THEN <<>>
    ELSE [i \in 1..Len(polynomials(Head(gates))) |->
              degree(polynomials(Head(gates))[i])]
         \o gate_degrees(Tail(gates))

\* A plausible slip: the explicit minimum degree is left out.
cs_degree_without_minimum(self) ==
    LET d0 == required_degree(self.permutation)
        d1 == Max2(d0, UnwrapOr(IterMax([i \in 1..Len(self.lookups) |->
                        lookup_required_degree(self.lookups[i])]), 1))
        d2 == Max2(d1, UnwrapOr(IterMax([i \in 1..Len(self.shuffles) |->
                        shuffle_required_degree(self.shuffles[i])]), 1))
    IN  Max2(d2, UnwrapOr(IterMax(gate_degrees(self.gates)), 0))

\* ConstraintSystem::degree
cs_degree(self) ==
    LET d0 == required_degree(self.permutation)
        d1 == Max2(d0, UnwrapOr(IterMax([i \in 1..Len(self.lookups) |->
                        lookup_required_degree(self.lookups[i])]), 1))
        d2 == Max2(d1, UnwrapOr(IterMax([i \in 1..Len(self.shuffles) |->
                        shuffle_required_degree(self.shuffles[i])]), 1))
        d3 == Max2(d2, UnwrapOr(IterMax(gate_degrees(self.gates)), 0))
    IN  Max2(d3, UnwrapOr(self.minimum_degree, 1))

\* A plausible slip: the floor of 3 is applied after the two increments.
blinding_factors_late_floor(self) ==
    LET factors == UnwrapOr(IterMax(self.num_advice_queries), 1)
    IN  Max2(3, factors + 1 + 1)

\* ConstraintSystem::blinding_factors
blinding_factors(self) ==
    LET factors0 == UnwrapOr(IterMax(self.num_advice_queries), 1)
        factors1 == Max2(3, factors0)
        factors2 == factors1 + 1
    IN  factors2 + 1

\* A plausible slip: the row of l_0 is forgotten.
minimum_rows_without_l0(self) == blinding_factors(self) + 1 + 1

\* ConstraintSystem::minimum_rows
minimum_rows(self) == blinding_factors(self) + 1 + 1 + 1

\* The gates of the constraint systems measured: what collect_queries_gates
\* makes of polynomials of degree 0, 2, 4 and 5.
CSGates ==
    {collect_queries_gates(<<GateV2Backend("gate", poly)>>, QueriesMapNew).gates[1] :
        poly \in {Constant(1),
                  Product(qF0, qA1),
                  Product(Product(qA0, qA1), Sum(Product(qF0, qA2), qI0)),
                  Product(Product(Product(qA0, qA1), Sum(Product(qF0, qA2), qI0)),
                          Negated(qI0))}}
CSLookups == {LookupArgument(d) : d \in 4..MaxArgDegree}
CSShuffles == {ShuffleArgument(d) : d \in 3..MaxArgDegree}
CSPermutations ==
    {<<>>, <<Column(0, AnyAdvice(FirstPhase))>>,
     <<Column(0, AnyAdvice(FirstPhase)), Column(0, AnyFixed)>>}

Degree ==
    /\ cs # None
    /\ metrics = None
    /\ metrics' = Some([op |-> "degree", value |-> cs_degree(Unwrap(cs))])
    /\ UNCHANGED <<cs, colVars, argVars, asmVars, evalVars, collVars, callVars>>

BlindingFactors ==
    /\ cs # None
    /\ metrics = None
    /\ metrics' = Some([op |-> "blinding_factors",
                        value |-> blinding_factors(Unwrap(cs))])
    /\ UNCHANGED <<cs, colVars, argVars, asmVars, evalVars, collVars, callVars>>

MinimumRows ==
    /\ cs # None
    /\ metrics = None
    /\ metrics' = Some([op |-> "minimum_rows", value |-> minimum_rows(Unwrap(cs))])
    /\ UNCHANGED <<cs, colVars, argVars, asmVars, evalVars, collVars, callVars>>

InitCS ==
    /\ \E ng \in 0..MaxCSItems :
       \E nl \in 0..(MaxCSItems - ng) :
       \E ns \in 0..(MaxCSItems - ng - nl) :
       \E nq \in 0..(MaxCSItems - ng - nl - ns) :
       \E gates \in [1..ng -> CSGates], lookups \in [1..nl -> CSLookups],
          shuffles \in [1..ns -> CSShuffles],
          num_advice_queries \in [1..nq -> 0..MaxCount],
          permutation \in CSPermutations,
          minimum_degree \in {None} \cup {Some(d) : d \in 1..MaxMinDegree} :
            cs = Some(ConstraintSystem(gates, num_advice_queries, permutation,
                                       lookups, shuffles, minimum_degree))
    /\ metrics = None
    /\ IdleCol /\ IdleArg /\ IdleAsm /\ IdleEval /\ IdleColl /\ IdleCall

NextCS == Degree \/ BlindingFactors \/ MinimumRows

SpecCS == InitCS /\ [][NextCS]_vars

\* The largest member of a non-empty set of naturals.
SetMax(S) == CHOOSE m \in S : \A x \in S : x <= m

Measured == Unwrap(cs)
Metric == Unwrap(metrics)

\* C8: degree() is the maximum of the permutation argument's required
\* degree, the required degrees of the lookups, those of the shuffles, the
\* degrees of the gate polynomials and the explicit minimum_degree (1 when
\* none is set); the permutation argument's required degree is 3 for any
\* number of columns, so degree() >= 3.
C8_Degree ==
    (metrics # None /\ Metric.op = "degree") =>
        /\ Metric.value =
              SetMax({required_degree(Measured.permutation)}
                     \cup {l.required_degree : l \in Elems(Measured.lookups)}
                     \cup {h.required_degree : h \in Elems(Measured.shuffles)}
                     \cup {degree(poly) : poly \in
                              UNION {Elems(g.polys) : g \in Elems(Measured.gates)}}
                     \cup {IF Measured.minimum_degree = None THEN 1
                           ELSE Unwrap(Measured.minimum_degree)})
        /\ required_degree(Measured.permutation) = 3
        /\ Metric.value >= 3

\* Witness of C8: degree() of a system with a permutation column, a lookup,
\* a shuffle, a gate and an explicit minimum degree, decided by the gate.
C8_Witness ==
    /\ metrics # None
    /\ Metric.op = "degree"
    /\ Len(Measured.permutation) > 0
    /\ Len(Measured.lookups) > 0
    /\ Len(Measured.shuffles) > 0
    /\ Len(Measured.gates) > 0
    /\ Measured.minimum_degree # None
    /\ Metric.value = degree(Measured.gates[1].polys[1])
    /\ Metric.value > Measured.lookups[1].required_degree
    /\ Metric.value > Measured.shuffles[1].required_degree
    /\ Metric.value > Unwrap(Measured.minimum_degree)

\* C9: blinding_factors() is max(3, m) + 2 with m the largest entry of
\* num_advice_queries (5 when there is no advice column); it is at least 5
\* and exceeds 5 exactly when some advice column has more than 3 queries.
C9_BlindingFactors ==
    (metrics # None /\ Metric.op = "blinding_factors") =>
        LET counts == Elems(Measured.num_advice_queries)
        IN  /\ counts # {} =>
                  Metric.value = (IF SetMax(counts) > 3 THEN SetMax(counts) ELSE 3) + 2
            /\ counts = {} => Metric.value = 5
            /\ Metric.value >= 5
            /\ Metric.value > 5 <=> \E c \in counts : c > 3

\* Witness of C9: blinding_factors() of a system one of whose two advice
\* columns has more than 3 queries.
C9_Witness ==
    /\ metrics # None
    /\ Metric.op = "blinding_factors"
    /\ Len(Measured.num_advice_queries) = 2
    /\ Measured.num_advice_queries[1] < 3
    /\ Measured.num_advice_queries[2] > 3
    /\ Metric.value > 5

\* C10: minimum_rows() is blinding_factors() + 3, hence at least 8.
C10_MinimumRows ==
    (metrics # None /\ Metric.op = "minimum_rows") =>
        /\ Metric.value = blinding_factors(Measured) + 3
        /\ Metric.value >= 8

\* Witness of C10: minimum_rows() of a system whose blinding factors exceed
\* the floor.
C10_Witness ==
    /\ metrics # None
    /\ Metric.op = "minimum_rows"
    /\ blinding_factors(Measured) > 5
    /\ Metric.value = blinding_factors(Measured) + 3

-----------------------------------------------------------------------------
(* The degree of the two expression types (circuit.rs 549-565, 917-930).   *)

\* A plausible slip: a product takes the larger degree, as a sum does.
RECURSIVE degree_product_max(_)
degree_product_max(e) ==
    CASE e.tag \in {"Constant", "Challenge"} -> 0
      [] e.tag \in {"Fixed", "Advice", "Instance"} -> 1
      [] e.tag \in {"Negated", "Scaled"} -> degree_product_max(e.a)
      [] e.tag \in {"Sum", "Product"} ->
            Max2(degree_product_max(e.a), degree_product_max(e.b))

\* ExpressionMid::degree
RECURSIVE ExpressionMid_degree(_)
ExpressionMid_degree(e) ==
    CASE e.tag = "Constant" -> 0
      [] e.tag = "Fixed" -> 1
      [] e.tag = "Advice" -> 1
      [] e.tag = "Instance" -> 1
      [] e.tag = "Challenge" -> 0
      [] e.tag = "Negated" -> ExpressionMid_degree(e.a)
      [] e.tag = "Sum" -> Max2(ExpressionMid_degree(e.a), ExpressionMid_degree(e.b))
      [] e.tag = "Product" -> ExpressionMid_degree(e.a) + ExpressionMid_degree(e.b)
      [] e.tag = "Scaled" -> ExpressionMid_degree(e.a)

\* The mid-level expressions measured: every operator over the leaves, and
\* every operator over those with a query on the other side.
MidVarLeaves == {qF0, qA0, qI0, Challenge(ChallengeOf(0, FirstPhase))}
MidLeaves == {Constant(0), Constant(1)} \cup MidVarLeaves
MidLevel1 ==
    MidLeaves
    \cup {Negated(a) : a \in MidLeaves}
    \cup {Scaled(a, f) : a \in MidVarLeaves, f \in F}
    \cup {Sum(a, b) : a, b \in MidLeaves}
    \cup {Product(a, b) : a, b \in MidLeaves}
MidExprs ==
    MidLevel1
    \cup {Negated(a) : a \in MidLevel1}
    \cup {Scaled(a, P - 1) : a \in MidLevel1}
    \cup {Sum(a, qF0) : a \in MidLevel1}
    \cup {Product(a, qF0) : a \in MidLevel1}
    \cup {Product(qF0, a) : a \in MidLevel1}

MidDegree ==
    /\ fn_in # None /\ fn_out = None
    /\ Unwrap(fn_in).type = "ExpressionMid"
    /\ fn_out' = Some([op |-> "degree", value |-> ExpressionMid_degree(Unwrap(fn_in).self)])
    /\ UNCHANGED <<fn_in, colVars, argVars, asmVars, evalVars, collVars, csVars>>

ExprDegree ==
    /\ fn_in # None /\ fn_out = None
    /\ Unwrap(fn_in).type = "Expression"
    /\ fn_out' = Some([op |-> "degree", value |-> degree(Unwrap(fn_in).self)])
    /\ UNCHANGED <<fn_in, colVars, argVars, asmVars, evalVars, collVars, csVars>>

InitDegree ==
    /\ \/ \E e \in MidExprs : fn_in = Some([type |-> "ExpressionMid", self |-> e])
       \/ \E e \in EvalExprs : fn_in = Some([type |-> "Expression", self |-> e])
    /\ fn_out = None
    /\ IdleCol /\ IdleArg /\ IdleAsm /\ IdleEval /\ IdleColl /\ IdleCS

NextDegree == MidDegree \/ ExprDegree

SpecDegree == InitDegree /\ [][NextDegree]_vars

\* The degree function of the type of the expression called on.
DegreeOfType(type, e) ==
    IF type = "ExpressionMid" THEN ExpressionMid_degree(e) ELSE degree(e)

\* C11: for Expression and ExpressionMid alike, degree() of a Constant or a
\* Challenge is 0, of a Fixed, Advice or Instance query 1, of Negated and
\* Scaled the degree of the child, of Sum the larger of the degrees of the
\* children and of Product their sum.
C11_DegreeFold ==
    fn_out # None =>
        LET e == Unwrap(fn_in).self
            d(x) == DegreeOfType(Unwrap(fn_in).type, x)
            value == Unwrap(fn_out).value
        IN  /\ e.tag \in {"Constant", "Challenge"} => value = 0
            /\ e.tag \in {"Fixed", "Advice", "Instance"} => value = 1
            /\ e.tag \in {"Negated", "Scaled"} => value = d(e.a)
            /\ e.tag = "Sum" =>
                  value = (IF d(e.a) > d(e.b) THEN d(e.a) ELSE d(e.b))
            /\ e.tag = "Product" => value = d(e.a) + d(e.b)

\* Witness of C11: the degree of a mid-level product of a sum of queries and
\* a query, which is 2.
C11_Witness ==
    /\ fn_out # None
    /\ Unwrap(fn_in).type = "ExpressionMid"
    /\ Unwrap(fn_in).self.tag = "Product"
    /\ Unwrap(fn_in).self.a.tag = "Sum"
    /\ Unwrap(fn_in).self.a.a.tag = "Advice"
    /\ Unwrap(fn_out).value = 2

-----------------------------------------------------------------------------
(* Expression identifiers (circuit.rs 855-915).                            *)

\* A plausible slip: the operands of a sum are written in a canonical order.
RECURSIVE write_identifier_sorted_sum(_)
write_identifier_sorted_sum(e) ==
    CASE e.tag = "Constant" -> ToString(e.c)
      [] e.tag = "Fixed" ->
            "fixed[" \o ToString(e.query.column_index) \o "]["
                     \o ToString(e.query.rotation) \o "]"
      [] e.tag = "Advice" ->
            "advice[" \o ToString(e.query.column_index) \o "]["
                      \o ToString(e.query.rotation) \o "]"
      [] e.tag = "Instance" ->
            "instance[" \o ToString(e.query.column_index) \o "]["
                        \o ToString(e.query.rotation) \o "]"
      [] e.tag = "Challenge" -> "challenge[" \o ToString(e.value.index) \o "]"
      [] e.tag = "Negated" -> "(-" \o write_identifier_sorted_sum(e.a) \o ")"
      [] e.tag = "Sum" ->
            LET x == write_identifier_sorted_sum(e.a)
                y == write_identifier_sorted_sum(e.b)
            IN  IF Len(x) <= Len(y) THEN "(" \o x \o "+" \o y \o ")"
                ELSE "(" \o y \o "+" \o x \o ")"
      [] e.tag = "Product" ->
            "(" \o write_identifier_sorted_sum(e.a) \o "*"
                \o write_identifier_sorted_sum(e.b) \o ")"
      [] e.tag = "Scaled" -> write_identifier_sorted_sum(e.a) \o "*" \o ToString(e.f)

\* Expression::write_identifier: the bytes written, as a string.  {:?} of a
\* field element is its numeral.
RECURSIVE write_identifier(_)
write_identifier(e) ==
    CASE e.tag = "Constant" -> ToString(e.c)
      [] e.tag = "Fixed" ->
            "fixed[" \o ToString(e.query.column_index) \o "]["
                     \o ToString(e.query.rotation) \o "]"
      [] e.tag = "Advice" ->
            "advice[" \o ToString(e.query.column_index) \o "]["
                      \o ToString(e.query.rotation) \o "]"
      [] e.tag = "Instance" ->
            "instance[" \o ToString(e.query.column_index) \o "]["
                        \o ToString(e.query.rotation) \o "]"
      [] e.tag = "Challenge" -> "challenge[" \o ToString(e.value.index) \o "]"
      [] e.tag = "Negated" -> "(-" \o write_identifier(e.a) \o ")"
      [] e.tag = "Sum" ->
            "(" \o write_identifier(e.a) \o "+" \o write_identifier(e.b) \o ")"
      [] e.tag = "Product" ->
            "(" \o write_identifier(e.a) \o "*" \o write_identifier(e.b) \o ")"
      [] e.tag = "Scaled" -> write_identifier(e.a) \o "*" \o ToString(e.f)

\* Expression::identifier
identifier(e) == write_identifier(e)

\* The expressions identified: the queries and challenges (an advice column
\* and a challenge in two phases), every operator over them, and the nestings
\* in which a scaling meets a sum, a product or a negation.
AdviceLeaf2 == Advice(AdviceQuery(None, 0, 0, SecondPhase))
ChallengeLeaf2 == Challenge(ChallengeOf(0, SecondPhase))
InstanceLeafPrev == Instance(InstanceQuery(None, 0, -1))
IdVarLeaves == VarLeaves \cup {AdviceLeaf2, ChallengeLeaf2, InstanceLeafPrev}
IdLeaves == {Constant(1)} \cup IdVarLeaves
IdExprs ==
    IdLeaves
    \cup {Negated(a) : a \in IdLeaves}
    \cup {Scaled(a, f) : a \in IdLeaves, f \in F \ {0}}
    \cup {Sum(a, b) : a, b \in IdLeaves}
    \cup {Product(a, b) : a, b \in IdLeaves}
    \cup {Product(Scaled(FixedLeaf, 1), Constant(1)),
          Product(FixedLeaf, Scaled(Constant(1), 1)),
          Scaled(Sum(FixedLeaf, AdviceLeaf), 1),
          Sum(FixedLeaf, Scaled(AdviceLeaf, 1)),
          Negated(Scaled(FixedLeaf, 1)),
          Scaled(Negated(FixedLeaf), 1)}

\* The closures of the evaluation over the field for the given queries and
\* challenges: each query (kind, column index, rotation, phase) and each
\* challenge (index, phase) has its own value.
FieldHandlersOver(leaves, values) ==
    [constant |-> [c \in F |-> c],
     fixed_column |-> [q \in {l.query : l \in {x \in leaves : x.tag = "Fixed"}}
                          |-> values[Fixed(q)]],
     advice_column |-> [q \in {l.query : l \in {x \in leaves : x.tag = "Advice"}}
                          |-> values[Advice(q)]],
     instance_column |-> [q \in {l.query : l \in {x \in leaves : x.tag = "Instance"}}
                          |-> values[Instance(q)]],
     challenge |-> [c \in {l.value : l \in {x \in leaves : x.tag = "Challenge"}}
                          |-> values[Challenge(c)]],
     negated |-> [a \in F |-> (P - a) % P],
     sum |-> [a, b \in F |-> (a + b) % P],
     product |-> [a, b \in F |-> (a * b) % P],
     scaled |-> [a, f \in F |-> (a * f) % P]]

\* identifier() of two expressions, of their sum and of the sum the other
\* way round.
Identifier ==
    /\ fn_in # None /\ fn_out = None
    /\ LET a == Unwrap(fn_in).a
           b == Unwrap(fn_in).b
       IN  fn_out' = Some([a |-> identifier(a), b |-> identifier(b),
                           ab |-> identifier(Sum(a, b)),
                           ba |-> identifier(Sum(b, a))])
    /\ UNCHANGED <<fn_in, colVars, argVars, asmVars, evalVars, collVars, csVars>>

InitIdent ==
    /\ \E a, b \in IdExprs : fn_in = Some([a |-> a, b |-> b])
    /\ fn_out = None
    /\ IdleCol /\ IdleArg /\ IdleAsm /\ IdleEval /\ IdleColl /\ IdleCS

NextIdent == Identifier

SpecIdent == InitIdent /\ [][NextIdent]_vars

\* C12: two expressions with the same identifier evaluate to the same value
\* over the field under every assignment of values to the challenges (by
\* index and phase) and the queries (by kind, column index, rotation and, for
\* advice, phase).
C12_SameIdentifierSameValue ==
    (fn_out # None /\ Unwrap(fn_out).a = Unwrap(fn_out).b) =>
        \A values \in [IdVarLeaves -> F] :
            evaluate(Unwrap(fn_in).a, FieldHandlersOver(IdVarLeaves, values))
                = evaluate(Unwrap(fn_in).b, FieldHandlersOver(IdVarLeaves, values))

-----------------------------------------------------------------------------
(* Mid-level to indexed and back (circuit.rs 590-631, 1291-1339).          *)

\* A plausible slip: the phase of an advice query is not carried over.
RECURSIVE into_ExpressionMid_first_phase(_)
into_ExpressionMid_first_phase(e) ==
    CASE e.tag \in {"Constant", "Challenge"} -> e
      [] e.tag = "Fixed" ->
            Fixed(FixedQueryMid(e.query.column_index, e.query.rotation))
      [] e.tag = "Advice" ->
            Advice(AdviceQueryMid(e.query.column_index, e.query.rotation, FirstPhase))
      [] e.tag = "Instance" ->
            Instance(InstanceQueryMid(e.query.column_index, e.query.rotation))
      [] e.tag = "Negated" -> Negated(into_ExpressionMid_first_phase(e.a))
      [] e.tag = "Sum" -> Sum(into_ExpressionMid_first_phase(e.a),
                              into_ExpressionMid_first_phase(e.b))
      [] e.tag = "Product" -> Product(into_ExpressionMid_first_phase(e.a),
                                      into_ExpressionMid_first_phase(e.b))
      [] e.tag = "Scaled" -> Scaled(into_ExpressionMid_first_phase(e.a), e.f)

\* impl Into<ExpressionMid<F>> for Expression<F>
RECURSIVE into_ExpressionMid(_)
into_ExpressionMid(e) ==
    CASE e.tag = "Constant" -> Constant(e.c)
      [] e.tag = "Fixed" ->
            Fixed(FixedQueryMid(e.query.column_index, e.query.rotation))
      [] e.tag = "Advice" ->
            Advice(AdviceQueryMid(e.query.column_index, e.query.rotation,
                                  e.query.phase))
      [] e.tag = "Instance" ->
            Instance(InstanceQueryMid(e.query.column_index, e.query.rotation))
      [] e.tag = "Challenge" -> Challenge(e.value)
      [] e.tag = "Negated" -> Negated(into_ExpressionMid(e.a))
      [] e.tag = "Sum" -> Sum(into_ExpressionMid(e.a), into_ExpressionMid(e.b))
      [] e.tag = "Product" ->
            Product(into_ExpressionMid(e.a), into_ExpressionMid(e.b))
      [] e.tag = "Scaled" -> Scaled(into_ExpressionMid(e.a), e.f)

\* The mid-level expressions converted: every operator over queries of two
\* columns, two rotations and two phases.
RoundVarLeaves == MidVarLeaves \cup {qA1, qA2, qA0p, qI1, qF1}
RoundExprs ==
    RoundVarLeaves \cup {Constant(0), Constant(1)}
    \cup {Negated(a) : a \in RoundVarLeaves}
    \cup {Scaled(a, f) : a \in RoundVarLeaves, f \in F}
    \cup {Sum(a, b) : a, b \in RoundVarLeaves}
    \cup {Product(a, b) : a \in RoundVarLeaves, b \in RoundVarLeaves \cup {Constant(1)}}
    \cup {Product(Sum(qA0, qA2), Negated(qA0)), Sum(Scaled(qA0p, 1), Product(qF1, qA0p))}

\* The states of the query table at the conversion: new, or as the
\* conversion of an earlier expression left it.
RoundTables ==
    {QueriesMapNew}
    \cup {as_expression(QueriesMapNew, e).self :
            e \in {qA0, Sum(qF0, qA2), Product(qI0, Sum(qA0p, qA0))}}

AsExpression ==
    /\ fn_in # None /\ fn_out = None
    /\ LET r == as_expression(Unwrap(fn_in).self, Unwrap(fn_in).expr)
       IN  fn_out' = Some([op |-> "as_expression", self |-> r.self, expr |-> r.expr])
    /\ UNCHANGED <<fn_in, colVars, argVars, asmVars, evalVars, collVars, csVars>>

IntoMid ==
    /\ fn_out # None
    /\ Unwrap(fn_out).op = "as_expression"
    /\ fn_out' = Some([op |-> "into", self |-> Unwrap(fn_out).expr,
                       expr |-> into_ExpressionMid(Unwrap(fn_out).expr)])
    /\ UNCHANGED <<fn_in, colVars, argVars, asmVars, evalVars, collVars, csVars>>

InitRound ==
    /\ \E queries \in RoundTables, e \in RoundExprs :
          fn_in = Some([self |-> queries, expr |-> e])
    /\ fn_out = None
    /\ IdleCol /\ IdleArg /\ IdleAsm /\ IdleEval /\ IdleColl /\ IdleCS

NextRound == AsExpression \/ IntoMid

SpecRound == InitRound /\ [][NextRound]_vars

\* C14: a mid-level expression converted by as_expression, in any state of
\* the query table, and back by Into<ExpressionMid> is the expression it
\* was; its degree, the degree of the indexed expression and the degree of
\* the expression converted back are the same.
C14_RoundTrip ==
    fn_out # None =>
        LET E == Unwrap(fn_in).expr
            r == Unwrap(fn_out)
        IN  /\ r.op = "as_expression" => degree(r.expr) = ExpressionMid_degree(E)
            /\ r.op = "into" =>
                  /\ r.expr = E
                  /\ ExpressionMid_degree(r.expr) = ExpressionMid_degree(E)
                  /\ degree(r.self) = ExpressionMid_degree(E)

\* Witness of C14: a product with an advice query of the second phase,
\* converted against a table that already holds queries, and back.
C14_Witness ==
    /\ fn_out # None
    /\ Unwrap(fn_out).op = "into"
    /\ Unwrap(fn_in).self # QueriesMapNew
    /\ Unwrap(fn_in).expr.tag = "Product"
    /\ Unwrap(fn_in).expr.a = qA0p
    /\ Unwrap(fn_out).self.a.query.index = Some(1)
    /\ Unwrap(fn_out).expr = Unwrap(fn_in).expr

-----------------------------------------------------------------------------
(* The closure calls of evaluate_lazy (circuit.rs 739-853).                *)

\* A plausible slip: the operands of a product are never swapped.
product_operands_as_written(a, b) == <<a, b>>

\* The operands of Product(a, b) in the order evaluate_lazy takes them: the
\* one of smaller complexity first, a on a tie.
product_operands(a, b) ==
    IF complexity(a) <= complexity(b) THEN <<a, b>> ELSE <<b, a>>

\* A plausible slip: both operands of a product are evaluated before the
\* first is compared with the sentinel.
RECURSIVE evaluate_lazy_calls_both(_, _, _)
evaluate_lazy_calls_both(e, H, zero) ==
    CASE e.tag = "Constant" ->
            [value |-> H.constant[e.c], calls |-> <<[h |-> "constant", at |-> e]>>]
      [] e.tag = "Fixed" ->
            [value |-> H.fixed_column[e.query],
             calls |-> <<[h |-> "fixed_column", at |-> e]>>]
      [] e.tag = "Advice" ->
            [value |-> H.advice_column[e.query],
             calls |-> <<[h |-> "advice_column", at |-> e]>>]
      [] e.tag = "Instance" ->
            [value |-> H.instance_column[e.query],
             calls |-> <<[h |-> "instance_column", at |-> e]>>]
      [] e.tag = "Challenge" ->
            [value |-> H.challenge[e.value],
             calls |-> <<[h |-> "challenge", at |-> e]>>]
      [] e.tag = "Negated" ->
            LET a == evaluate_lazy_calls_both(e.a, H, zero)
            IN  [value |-> H.negated[a.value],
                 calls |-> Append(a.calls, [h |-> "negated", at |-> e])]
      [] e.tag = "Sum" ->
            LET a == evaluate_lazy_calls_both(e.a, H, zero)
                b == evaluate_lazy_calls_both(e.b, H, zero)
            IN  [value |-> H.sum[a.value, b.value],
                 calls |-> Append(a.calls \o b.calls, [h |-> "sum", at |-> e])]
      [] e.tag = "Product" ->
            LET ab == IF complexity(e.a) <= complexity(e.b)
                      THEN <<e.a, e.b>> ELSE <<e.b, e.a>>
                a == evaluate_lazy_calls_both(ab[1], H, zero)
                b == evaluate_lazy_calls_both(ab[2], H, zero)
            IN  IF a.value = zero THEN [value |-> a.value, calls |-> a.calls \o b.calls]
                ELSE [value |-> H.product[a.value, b.value],
                      calls |-> Append(a.calls \o b.calls,
                                       [h |-> "product", at |-> e,
                                        args |-> <<a.value, b.value>>])]
      [] e.tag = "Scaled" ->
            LET a == evaluate_lazy_calls_both(e.a, H, zero)
            IN  [value |-> H.scaled[a.value, e.f],
                 calls |-> Append(a.calls, [h |-> "scaled", at |-> e])]

\* Expression::evaluate_lazy with the closure calls it makes listed in
\* order, each with the node it is made for, and a call of the product
\* closure with its two arguments.
RECURSIVE evaluate_lazy_calls(_, _, _)
evaluate_lazy_calls(e, H, zero) ==
    CASE e.tag = "Constant" ->
            [value |-> H.constant[e.c], calls |-> <<[h |-> "constant", at |-> e]>>]
      [] e.tag = "Fixed" ->
            [value |-> H.fixed_column[e.query],
             calls |-> <<[h |-> "fixed_column", at |-> e]>>]
      [] e.tag = "Advice" ->
            [value |-> H.advice_column[e.query],
             calls |-> <<[h |-> "advice_column", at |-> e]>>]
      [] e.tag = "Instance" ->
            [value |-> H.instance_column[e.query],
             calls |-> <<[h |-> "instance_column", at |-> e]>>]
      [] e.tag = "Challenge" ->
            [value |-> H.challenge[e.value],
             calls |-> <<[h |-> "challenge", at |-> e]>>]
      [] e.tag = "Negated" ->
            LET a == evaluate_lazy_calls(e.a, H, zero)
            IN  [value |-> H.negated[a.value],
                 calls |-> Append(a.calls, [h |-> "negated", at |-> e])]
      [] e.tag = "Sum" ->
            LET a == evaluate_lazy_calls(e.a, H, zero)
                b == evaluate_lazy_calls(e.b, H, zero)
            IN  [value |-> H.sum[a.value, b.value],
                 calls |-> Append(a.calls \o b.calls, [h |-> "sum", at |-> e])]
      [] e.tag = "Product" ->
            LET ab == product_operands(e.a, e.b)
                a == evaluate_lazy_calls(ab[1], H, zero)
            IN  IF a.value = zero THEN a
                ELSE LET b == evaluate_lazy_calls(ab[2], H, zero)
                     IN  [value |-> H.product[a.value, b.value],
                          calls |-> Append(a.calls \o b.calls,
                                           [h |-> "product", at |-> e,
                                            args |-> <<a.value, b.value>>])]
      [] e.tag = "Scaled" ->
            LET a == evaluate_lazy_calls(e.a, H, zero)
            IN  [value |-> H.scaled[a.value, e.f],
                 calls |-> Append(a.calls, [h |-> "scaled", at |-> e])]

\* The products evaluated, and the sentinels they are evaluated with.
LazyProducts == {e \in EvalExprs : e.tag = "Product"}
LazySentinels == {0, 1}

EvaluateLazy ==
    /\ fn_in # None /\ fn_out = None
    /\ fn_out' = Some(evaluate_lazy_calls(Unwrap(fn_in).self,
                                          FieldHandlers(Unwrap(fn_in).values),
                                          Unwrap(fn_in).zero))
    /\ UNCHANGED <<fn_in, colVars, argVars, asmVars, evalVars, collVars, csVars>>

InitLazy ==
    /\ \E e \in LazyProducts, values \in Envs, zero \in LazySentinels :
          fn_in = Some([self |-> e, values |-> values, zero |-> zero])
    /\ fn_out = None
    /\ IdleCol /\ IdleArg /\ IdleAsm /\ IdleEval /\ IdleColl /\ IdleCS

NextLazy == EvaluateLazy

SpecLazy == InitLazy /\ [][NextLazy]_vars

\* C18: evaluate_lazy on Product(a, b) evaluates the operand of smaller
\* complexity first, a on a tie; when the result of that operand equals the
\* zero sentinel no closure is called for the other operand or for the
\* product, and that result is the value returned.
C18_ProductShortCircuit ==
    fn_out # None =>
        LET e == Unwrap(fn_in).self
            H == FieldHandlers(Unwrap(fn_in).values)
            zero == Unwrap(fn_in).zero
            cheap == IF complexity(e.b) < complexity(e.a) THEN e.b ELSE e.a
            first == evaluate_lazy_calls(cheap, H, zero)
            r == Unwrap(fn_out)
        IN  /\ Len(r.calls) >= Len(first.calls)
            /\ SubSeq(r.calls, 1, Len(first.calls)) = first.calls
            /\ first.value = zero =>
                  /\ r.calls = first.calls
                  /\ \A i \in 1..Len(r.calls) : r.calls[i].h # "product" \/ r.calls[i].at # e
                  /\ r.value = first.value
            /\ r.value = evaluate_lazy(e, H, zero)

\* Witness of C18: a product whose right operand is the cheaper one and
\* evaluates to the sentinel: only its closures were called.
C18_Witness ==
    /\ fn_out # None
    /\ complexity(Unwrap(fn_in).self.b) < complexity(Unwrap(fn_in).self.a)
    /\ Unwrap(fn_out).value = Unwrap(fn_in).zero
    /\ Unwrap(fn_out).calls
          = evaluate_lazy_calls(Unwrap(fn_in).self.b,
                                FieldHandlers(Unwrap(fn_in).values),
                                Unwrap(fn_in).zero).calls
    /\ Len(Unwrap(fn_out).calls) = 1

-----------------------------------------------------------------------------
(* The closure calls of evaluate (circuit.rs 637-734), next to those of    *)
(* evaluate_lazy.                                                          *)

\* Expression::evaluate with the closure calls it makes listed in order.
RECURSIVE evaluate_calls(_, _)
evaluate_calls(e, H) ==
    CASE e.tag = "Constant" ->
            [value |-> H.constant[e.c], calls |-> <<[h |-> "constant", at |-> e]>>]
      [] e.tag = "Fixed" ->
            [value |-> H.fixed_column[e.query],
             calls |-> <<[h |-> "fixed_column", at |-> e]>>]
      [] e.tag = "Advice" ->
            [value |-> H.advice_column[e.query],
             calls |-> <<[h |-> "advice_column", at |-> e]>>]
      [] e.tag = "Instance" ->
            [value |-> H.instance_column[e.query],
             calls |-> <<[h |-> "instance_column", at |-> e]>>]
      [] e.tag = "Challenge" ->
            [value |-> H.challenge[e.value],
             calls |-> <<[h |-> "challenge", at |-> e]>>]
      [] e.tag = "Negated" ->
            LET a == evaluate_calls(e.a, H)
            IN  [value |-> H.negated[a.value],
                 calls |-> Append(a.calls, [h |-> "negated", at |-> e])]
      [] e.tag = "Sum" ->
            LET a == evaluate_calls(e.a, H)
                b == evaluate_calls(e.b, H)
            IN  [value |-> H.sum[a.value, b.value],
                 calls |-> Append(a.calls \o b.calls, [h |-> "sum", at |-> e])]
      [] e.tag = "Product" ->
            LET a == evaluate_calls(e.a, H)
                b == evaluate_calls(e.b, H)
            IN  [value |-> H.product[a.value, b.value],
                 calls |-> Append(a.calls \o b.calls,
                                  [h |-> "product", at |-> e,
                                   args |-> <<a.value, b.value>>])]
      [] e.tag = "Scaled" ->
            LET a == evaluate_calls(e.a, H)
            IN  [value |-> H.scaled[a.value, e.f],
                 calls |-> Append(a.calls, [h |-> "scaled", at |-> e])]

EvaluateCalls ==
    /\ fn_in # None /\ fn_out = None
    /\ fn_out' = Some([by |-> "evaluate",
                       run |-> evaluate_calls(Unwrap(fn_in).self,
                                              FieldHandlers(Unwrap(fn_in).values))])
    /\ UNCHANGED <<fn_in, colVars, argVars, asmVars, evalVars, collVars, csVars>>

EvaluateLazyCalls ==
    /\ fn_in # None /\ fn_out = None
    /\ fn_out' = Some([by |-> "evaluate_lazy",
                       run |-> evaluate_lazy_calls(Unwrap(fn_in).self,
                                                   FieldHandlers(Unwrap(fn_in).values),
                                                   Unwrap(fn_in).zero)])
    /\ UNCHANGED <<fn_in, colVars, argVars, asmVars, evalVars, collVars, csVars>>

NextOrder == EvaluateCalls \/ EvaluateLazyCalls

SpecOrder == InitLazy /\ [][NextOrder]_vars

-----------------------------------------------------------------------------
(* Constraints with a common selector (circuit.rs 1029-1034, 1079-1196).   *)

\* Bound: the constraints of one Constraints value.
MaxConstraints == 2

\* struct Constraint
Constraint(name, poly) == [name |-> name, poly |-> poly]

\* The values converted into a Constraint: an expression, or a name with an
\* expression.
FromExpression(poly) == [from |-> "Expression", poly |-> poly]
FromNamed(name, poly) == [from |-> "(S, Expression)", name |-> name, poly |-> poly]

\* impl From<Expression<F>> / From<(S, Expression<F>)> for Constraint<F>
into_Constraint(c) ==
    IF c.from = "Expression" THEN Constraint("", c.poly)
    ELSE Constraint(c.name, c.poly)

\* impl Mul for Expression<F>
mul(self, rhs) == Product(self, rhs)

\* Constraints::with_selector
with_selector(selector, constraints) ==
    [selector |-> selector, constraints |-> constraints]

\* A plausible slip: the selector is added to the constraint, not multiplied.
apply_selector_added(selector, c) ==
    Constraint(into_Constraint(c).name, Sum(selector, into_Constraint(c).poly))

\* apply_selector_to_constraint
apply_selector_to_constraint(selector, c) ==
    LET constraint == into_Constraint(c)
    IN  Constraint(constraint.name, mul(selector, constraint.poly))

\* impl IntoIterator for Constraints: the items the iterator yields.
into_iter(self) ==
    [i \in 1..Len(self.constraints) |->
        apply_selector_to_constraint(self.selector, self.constraints[i])]

\* The selectors and the constraints given to with_selector.
SelectorExprs ==
    {FixedLeaf, Constant(0), Product(FixedLeaf, AdviceLeaf),
     Sum(FixedLeaf, Negated(InstanceLeaf))}
ConstraintInputs ==
    {FromExpression(AdviceLeaf),
     FromExpression(Sum(Product(AdviceLeaf, AdviceLeaf), Constant(1))),
     FromNamed("a is boolean",
               Product(AdviceLeaf, Sum(Constant(1), Negated(AdviceLeaf)))),
     FromNamed("c", Scaled(ChallengeLeaf, 1)),
     FromNamed("one", Constant(1))}

IntoIter ==
    /\ fn_in # None /\ fn_out = None
    /\ fn_out' = Some(into_iter(with_selector(Unwrap(fn_in).selector,
                                              Unwrap(fn_in).constraints)))
    /\ UNCHANGED <<fn_in, colVars, argVars, asmVars, evalVars, collVars, csVars>>

InitSel ==
    /\ \E selector \in SelectorExprs,
          constraints \in SeqsUpTo(ConstraintInputs, MaxConstraints) :
            fn_in = Some([selector |-> selector, constraints |-> constraints])
    /\ fn_out = None
    /\ IdleCol /\ IdleArg /\ IdleAsm /\ IdleEval /\ IdleColl /\ IdleCS

NextSel == IntoIter

SpecSel == InitSel /\ [][NextSel]_vars

\* C19: the iterator of Constraints::with_selector(selector, constraints)
\* yields, for each constraint c in order, c's name with the polynomial
\* Product(selector, c.poly); so, over the field, with evaluate and with
\* evaluate_lazy, every polynomial yielded is zero wherever the selector is.
C19_SelectorGates ==
    fn_out # None =>
        LET selector == Unwrap(fn_in).selector
            constraints == Unwrap(fn_in).constraints
            yielded == Unwrap(fn_out)
        IN  /\ Len(yielded) = Len(constraints)
            /\ \A i \in 1..Len(constraints) :
                  LET c == constraints[i]
                      name == IF c.from = "Expression" THEN "" ELSE c.name
                  IN  /\ yielded[i].name = name
                      /\ yielded[i].poly = Product(selector, c.poly)
                      /\ \A values \in Envs :
                            evaluate(selector, FieldHandlers(values)) = 0 =>
                                /\ evaluate(yielded[i].poly, FieldHandlers(values)) = 0
                                /\ evaluate_lazy(yielded[i].poly,
                                                 FieldHandlers(values), 0) = 0

\* Witness of C19: two constraints, the first unnamed and the second named,
\* under a selector that is a product of queries.
C19_Witness ==
    /\ fn_out # None
    /\ Unwrap(fn_in).selector = Product(FixedLeaf, AdviceLeaf)
    /\ Len(Unwrap(fn_out)) = 2
    /\ Unwrap(fn_out)[1].name = ""
    /\ Unwrap(fn_out)[2].name = "a is boolean"
    /\ Unwrap(fn_out)[2].poly.a = Unwrap(fn_in).selector

-----------------------------------------------------------------------------
(* Narrowed columns and Column<Any> (circuit.rs 328-395).                  *)

\* Bound: the largest index of a converted column.
MaxConvIndex == 4

\* Result<Column<C>, &'static str>
OkOf(v) == [ok |-> v]
Err(e) == [err |-> e]

\* impl From<Column<Advice>> / From<Column<Fixed>> / From<Column<Instance>>
\* for Column<Any>
from_Column_Advice(advice) ==
    Column(advice.index, AnyAdvice(advice.column_type.phase))
from_Column_Fixed(advice) == Column(advice.index, AnyFixed)
from_Column_Instance(advice) == Column(advice.index, AnyInstance)

\* impl TryFrom<Column<Any>> for Column<Advice>
try_from_Column_Advice(any) ==
    IF any.column_type.kind = "Advice"
    THEN OkOf(Column(any.index, AdviceT(any.column_type.phase)))
    ELSE Err("Cannot convert into Column<Advice>")

\* A plausible slip: every column but an advice column converts.
try_from_Column_Fixed_not_advice(any) ==
    IF any.column_type.kind # "Advice" THEN OkOf(Column(any.index, FixedT))
    ELSE Err("Cannot convert into Column<Fixed>")

\* impl TryFrom<Column<Any>> for Column<Fixed>
try_from_Column_Fixed(any) ==
    IF any.column_type.kind = "Fixed" THEN OkOf(Column(any.index, FixedT))
    ELSE Err("Cannot convert into Column<Fixed>")

\* impl TryFrom<Column<Any>> for Column<Instance>
try_from_Column_Instance(any) ==
    IF any.column_type.kind = "Instance" THEN OkOf(Column(any.index, InstanceT))
    ELSE Err("Cannot convert into Column<Instance>")

\* The narrowed columns converted, each with the name of its type.
NarrowColumns ==
    {[type |-> "Advice", column |-> Column(i, AdviceT(phase))] :
        i \in 0..MaxConvIndex, phase \in Phases}
    \cup {[type |-> "Fixed", column |-> Column(i, FixedT)] : i \in 0..MaxConvIndex}
    \cup {[type |-> "Instance", column |-> Column(i, InstanceT)] :
            i \in 0..MaxConvIndex}

\* Column<Any>::from(column)
IntoAny ==
    /\ fn_in # None /\ fn_out = None
    /\ LET column == Unwrap(fn_in).column
           type == Unwrap(fn_in).type
       IN  fn_out' = Some([op |-> "from",
                           any |-> CASE type = "Advice" -> from_Column_Advice(column)
                                     [] type = "Fixed" -> from_Column_Fixed(column)
                                     [] type = "Instance" ->
                                            from_Column_Instance(column)])
    /\ UNCHANGED <<fn_in, colVars, argVars, asmVars, evalVars, collVars, csVars>>

\* Column::<Advice>::try_from(any) for the Column<Any> made before.
TryFromAdvice ==
    /\ fn_out # None /\ Unwrap(fn_out).op = "from"
    /\ fn_out' = Some([op |-> "try_from", type |-> "Advice",
                       any |-> Unwrap(fn_out).any,
                       result |-> try_from_Column_Advice(Unwrap(fn_out).any)])
    /\ UNCHANGED <<fn_in, colVars, argVars, asmVars, evalVars, collVars, csVars>>

TryFromFixed ==
    /\ fn_out # None /\ Unwrap(fn_out).op = "from"
    /\ fn_out' = Some([op |-> "try_from", type |-> "Fixed",
                       any |-> Unwrap(fn_out).any,
                       result |-> try_from_Column_Fixed(Unwrap(fn_out).any)])
    /\ UNCHANGED <<fn_in, colVars, argVars, asmVars, evalVars, collVars, csVars>>

TryFromInstance ==
    /\ fn_out # None /\ Unwrap(fn_out).op = "from"
    /\ fn_out' = Some([op |-> "try_from", type |-> "Instance",
                       any |-> Unwrap(fn_out).any,
                       result |-> try_from_Column_Instance(Unwrap(fn_out).any)])
    /\ UNCHANGED <<fn_in, colVars, argVars, asmVars, evalVars, collVars, csVars>>

InitConv ==
    /\ \E c \in NarrowColumns : fn_in = Some(c)
    /\ fn_out = None
    /\ IdleCol /\ IdleArg /\ IdleAsm /\ IdleEval /\ IdleColl /\ IdleCS

NextConv == IntoAny \/ TryFromAdvice \/ TryFromFixed \/ TryFromInstance

SpecConv == InitConv /\ [][NextConv]_vars

\* The conversions but for the error: narrow -> any keeps index, kind and
\* phase; any -> narrow succeeds exactly when the kinds match, and then gives
\* back the narrowed column.
ConversionsKeep ==
    fn_out # None =>
        LET narrow == Unwrap(fn_in)
            r == Unwrap(fn_out)
        IN  /\ r.any.index = narrow.column.index
            /\ r.any.column_type.kind = narrow.type
            /\ narrow.type = "Advice" =>
                  r.any.column_type.phase = narrow.column.column_type.phase
            /\ r.op = "try_from" =>
                  /\ ("ok" \in DOMAIN r.result) <=> (r.type = narrow.type)
                  /\ r.type = narrow.type => r.result = OkOf(narrow.column)

\* C20 as stated: the conversions keep what they should, and a conversion to
\* a narrowed column of another kind fails with a KindMismatch error.
C20_KindMismatch ==
    /\ ConversionsKeep
    /\ (fn_out # None /\ Unwrap(fn_out).op = "try_from"
            /\ Unwrap(fn_out).type # Unwrap(fn_in).type)
          => Unwrap(fn_out).result = Err("KindMismatch")

\* C20, amended: the conversions keep what they should, and a conversion to a
\* narrowed column of another kind fails with the message "Cannot convert
\* into Column<K>", K being the kind asked for.
C20_Conversions ==
    /\ ConversionsKeep
    /\ (fn_out # None /\ Unwrap(fn_out).op = "try_from"
            /\ Unwrap(fn_out).type # Unwrap(fn_in).type)
          => Unwrap(fn_out).result
                = Err("Cannot convert into Column<" \o Unwrap(fn_out).type \o ">")

\* Witness of C20: an advice column of the second phase made a Column<Any>
\* and narrowed to a fixed column, which fails.
C20_Witness ==
    /\ fn_out # None
    /\ Unwrap(fn_out).op = "try_from"
    /\ Unwrap(fn_in).type = "Advice"
    /\ Unwrap(fn_in).column.column_type.phase = SecondPhase
    /\ Unwrap(fn_out).type = "Fixed"
    /\ "err" \in DOMAIN Unwrap(fn_out).result

----------------------------------------------------------------------------
(* Iterator sums and products of expressions (circuit.rs 1015-1055).       *)

\* Bound: the longest sequence of expressions that is summed or multiplied.
MaxIterLen == 3

\* impl Add for Expression
add(self, rhs) == Sum(self, rhs)

\* Iterator::reduce(|acc, x| acc + x): None on the empty sequence, else the
\* first element combined with each later one from the left.
RECURSIVE reduce_add(_)
reduce_add(iter) ==
    IF iter = <<>> THEN None
    ELSE IF Len(iter) = 1 THEN Some(iter[1])
    ELSE Some(add(Unwrap(reduce_add(SubSeq(iter, 1, Len(iter) - 1))),
                  iter[Len(iter)]))

\* Iterator::reduce(|acc, x| acc * x)
RECURSIVE reduce_mul(_)
reduce_mul(iter) ==
    IF iter = <<>> THEN None
    ELSE IF Len(iter) = 1 THEN Some(iter[1])
    ELSE Some(mul(Unwrap(reduce_mul(SubSeq(iter, 1, Len(iter) - 1))),
                  iter[Len(iter)]))

\* A plausible slip: iter.fold(Constant(0), |acc, x| acc + x), which puts the
\* identity at the bottom of the tree.
RECURSIVE sum_fold_from_zero(_)
sum_fold_from_zero(iter) ==
    IF iter = <<>> THEN Constant(0)
    ELSE add(sum_fold_from_zero(SubSeq(iter, 1, Len(iter) - 1)), iter[Len(iter)])

\* impl Sum<Self> for Expression
sum(iter) == UnwrapOr(reduce_add(iter), Constant(0))

\* impl Product<Self> for Expression
product(iter) == UnwrapOr(reduce_mul(iter), Constant(1))

\* The expressions the sequences are made of: both identities, so that a
\* simplification would show, a query and a compound expression.
IterElems == {Constant(0), Constant(1), FixedLeaf, Negated(AdviceLeaf)}
IterInputs == SeqsUpTo(IterElems, MaxIterLen)

IterSum ==
    /\ fn_in # None /\ fn_out = None
    /\ fn_out' = Some([op |-> "sum", value |-> sum(Unwrap(fn_in))])
    /\ UNCHANGED <<fn_in, colVars, argVars, asmVars, evalVars, collVars, csVars>>

IterProduct ==
    /\ fn_in # None /\ fn_out = None
    /\ fn_out' = Some([op |-> "product", value |-> product(Unwrap(fn_in))])
    /\ UNCHANGED <<fn_in, colVars, argVars, asmVars, evalVars, collVars, csVars>>

InitIter ==
    /\ \E iter \in IterInputs : fn_in = Some(iter)
    /\ fn_out = None
    /\ IdleCol /\ IdleArg /\ IdleAsm /\ IdleEval /\ IdleColl /\ IdleCS

NextIter == IterSum \/ IterProduct

SpecIter == InitIter /\ [][NextIter]_vars

\* tree is the left-nested tree of the given node tag over the elements of
\* s, which has at least one element: its right spine is read off from the
\* last element of s to the second, and what is left is the first element.
RECURSIVE IsLeftNested(_, _, _)
IsLeftNested(tree, s, tag) ==
    IF Len(s) = 1 THEN tree = s[1]
    ELSE /\ tree.tag = tag
         /\ tree.b = s[Len(s)]
         /\ IsLeftNested(tree.a, SubSeq(s, 1, Len(s) - 1), tag)

\* C25: the iterator sum (product) of a sequence of expressions is
\* Constant(0) (Constant(1)) for the empty sequence, the element itself for
\* one element, and else the left-nested Sum (Product) tree over the
\* elements in their order, with no identity constant in it.
C25_IterFold ==
    fn_out # None =>
        LET iter == Unwrap(fn_in)
            r == Unwrap(fn_out)
            tag == IF r.op = "sum" THEN "Sum" ELSE "Product"
            identity == IF r.op = "sum" THEN Constant(0) ELSE Constant(1)
        IN  IF iter = <<>> THEN r.value = identity
            ELSE IsLeftNested(r.value, iter, tag)

\* Witness of C25: three elements, the first of them the identity of the
\* operation, were folded into a tree that keeps that first element.
C25_Witness ==
    /\ fn_out # None
    /\ Len(Unwrap(fn_in)) = 3
    /\ Unwrap(fn_out).op = "sum"
    /\ Unwrap(fn_in)[1] = Constant(0)
    /\ Unwrap(fn_out).value = Sum(Sum(Constant(0), Unwrap(fn_in)[2]), Unwrap(fn_in)[3])

----------------------------------------------------------------------------
(* ConstraintSystem from and into ConstraintSystemV2Backend, and the query *)
(* index getters (circuit.rs 1375-1444, 1605-1634, 1750-1792).             *)

\* Bound: the gates, lookups, shuffles and permutation columns of a backend
\* constraint system that is converted.
MaxConvertItems == 2

\* A panic ends the call without a value.
Panic(msg) == [panic |-> msg]
Panicked(r) == "panic" \in DOMAIN r

\* The ConstraintSystem literal of From<ConstraintSystemV2Backend>: the
\* fields that come from what collect_queries returned, and those of the
\* backend system that are read later.
ConstraintSystemOf(backend, c) ==
    IF c.panicked THEN Panic("index out of bounds")
    ELSE OkOf([num_advice_columns |-> backend.num_advice_columns,
               gates |-> c.gates,
               advice_queries |-> c.queries.advice,
               num_advice_queries |-> c.queries.num_advice_queries,
               instance_queries |-> c.queries.instance,
               fixed_queries |-> c.queries.fixed,
               permutation |-> backend.permutation,
               lookups |-> c.lookups,
               shuffles |-> c.shuffles,
               minimum_degree |-> None])

\* impl From<ConstraintSystemV2Backend> for ConstraintSystem
from_ConstraintSystemV2Backend(backend, random_state) ==
    ConstraintSystemOf(backend, collect_queries(backend, random_state))

\* The loop of the getters: the index of the first entry equal to
\* (column, at), counted from 0, or a panic when the loop finds none.
first_index_of(queries, column, at, msg) ==
    LET hits == {i \in 1..Len(queries) : queries[i] = <<column, at>>}
    IN  IF hits = {} THEN Panic(msg)
        ELSE OkOf((CHOOSE i \in hits : \A j \in hits : i <= j) - 1)

\* A plausible slip: the entries are compared by column alone.
get_advice_query_index_by_column(self, column, at) ==
    LET hits == {i \in 1..Len(self.advice_queries) :
                    self.advice_queries[i][1] = column}
    IN  IF hits = {}
        THEN Panic("get_advice_query_index called for non-existent query")
        ELSE OkOf((CHOOSE i \in hits : \A j \in hits : i <= j) - 1)

\* ConstraintSystem::get_advice_query_index
get_advice_query_index(self, column, at) ==
    first_index_of(self.advice_queries, column, at,
                   "get_advice_query_index called for non-existent query")

\* ConstraintSystem::get_fixed_query_index
get_fixed_query_index(self, column, at) ==
    first_index_of(self.fixed_queries, column, at,
                   "get_fixed_query_index called for non-existent query")

\* ConstraintSystem::get_instance_query_index
get_instance_query_index(self, column, at) ==
    first_index_of(self.instance_queries, column, at,
                   "get_instance_query_index called for non-existent query")

\* Result::unwrap
unwrap(r) == IF "ok" \in DOMAIN r THEN r.ok ELSE Panic(r.err)

\* ConstraintSystem::get_any_query_index
get_any_query_index(self, column, at) ==
    CASE column.column_type.kind = "Advice" ->
            get_advice_query_index(self, unwrap(try_from_Column_Advice(column)), at)
      [] column.column_type.kind = "Fixed" ->
            get_fixed_query_index(self, unwrap(try_from_Column_Fixed(column)), at)
      [] column.column_type.kind = "Instance" ->
            get_instance_query_index(self, unwrap(try_from_Column_Instance(column)), at)

\* Gate::constraint_name: indexing constraint_names past its end panics.
constraint_name(self, constraint_index) ==
    IF constraint_index < Len(self.constraint_names)
    THEN OkOf(self.constraint_names[constraint_index + 1])
    ELSE Panic("index out of bounds")

\* The GateV2Backend made of polynomial i of the gate g (the closure of the
\* inner map of Into<ConstraintSystemV2Backend>).
into_GateV2Backend(g, i) ==
    LET constraint == constraint_name(g, i)
    IN  IF Panicked(constraint) THEN constraint
        ELSE OkOf(GateV2Backend(IF constraint.ok = "" THEN g.name
                                ELSE g.name \o ":" \o constraint.ok,
                                into_ExpressionMid(g.polys[i + 1])))

\* impl Into<ConstraintSystemV2Backend> for ConstraintSystem
into_ConstraintSystemV2Backend(self) ==
    LET made == Concat([k \in 1..Len(self.gates) |->
                          [i \in 1..Len(self.gates[k].polys) |->
                              into_GateV2Backend(self.gates[k], i - 1)]])
        mid(exprs) == [j \in 1..Len(exprs) |-> into_ExpressionMid(exprs[j])]
    IN  IF \E k \in 1..Len(made) : Panicked(made[k])
        THEN Panic("index out of bounds")
        ELSE OkOf(ConstraintSystemV2Backend(
                    self.num_advice_columns,
                    [k \in 1..Len(made) |-> made[k].ok],
                    self.permutation,
                    [k \in 1..Len(self.lookups) |->
                        LookupV2(self.lookups[k].name,
                                 mid(self.lookups[k].input_expressions),
                                 mid(self.lookups[k].table_expressions))],
                    [k \in 1..Len(self.shuffles) |->
                        ShuffleV2(self.shuffles[k].name,
                                  mid(self.shuffles[k].input_expressions),
                                  mid(self.shuffles[k].shuffle_expressions))]))

\* The columns and rotations the getters are asked for.
GetterIndices == 0..1
GetterPhases == {FirstPhase, SecondPhase}
GetterRotations == {-1, 0, 1}
GetterAnyColumns ==
    {Column(i, AnyAdvice(ph)) : i \in GetterIndices, ph \in GetterPhases}
    \cup {Column(i, AnyFixed) : i \in GetterIndices}
    \cup {Column(i, AnyInstance) : i \in GetterIndices}

\* The call of a getter, as recorded in fn_in.
GetterCall(fn, column, at) == [fn |-> fn, column |-> column, at |-> at]

FromBackend ==
    /\ cs2 # None /\ cs = None
    /\ \E random_state \in RandomStates :
          cs' = Some(from_ConstraintSystemV2Backend(Unwrap(cs2), random_state))
    /\ UNCHANGED <<metrics, cs2, collected, colVars, argVars, asmVars, evalVars,
                   callVars>>

Converted == cs # None /\ ~Panicked(Unwrap(cs))

GetAdviceQueryIndex ==
    /\ Converted /\ fn_out = None
    /\ \E i \in GetterIndices, ph \in GetterPhases, at \in GetterRotations :
          LET column == Column(i, AdviceT(ph))
          IN  /\ fn_in' = Some(GetterCall("get_advice_query_index", column, at))
              /\ fn_out' = Some(get_advice_query_index(Unwrap(cs).ok, column, at))
    /\ UNCHANGED <<csVars, collVars, colVars, argVars, asmVars, evalVars>>

GetFixedQueryIndex ==
    /\ Converted /\ fn_out = None
    /\ \E i \in GetterIndices, at \in GetterRotations :
          LET column == Column(i, FixedT)
          IN  /\ fn_in' = Some(GetterCall("get_fixed_query_index", column, at))
              /\ fn_out' = Some(get_fixed_query_index(Unwrap(cs).ok, column, at))
    /\ UNCHANGED <<csVars, collVars, colVars, argVars, asmVars, evalVars>>

GetInstanceQueryIndex ==
    /\ Converted /\ fn_out = None
    /\ \E i \in GetterIndices, at \in GetterRotations :
          LET column == Column(i, InstanceT)
          IN  /\ fn_in' = Some(GetterCall("get_instance_query_index", column, at))
              /\ fn_out' = Some(get_instance_query_index(Unwrap(cs).ok, column, at))
    /\ UNCHANGED <<csVars, collVars, colVars, argVars, asmVars, evalVars>>

GetAnyQueryIndex ==
    /\ Converted /\ fn_out = None
    /\ \E column \in GetterAnyColumns, at \in GetterRotations :
          /\ fn_in' = Some(GetterCall("get_any_query_index", column, at))
          /\ fn_out' = Some(get_any_query_index(Unwrap(cs).ok, column, at))
    /\ UNCHANGED <<csVars, collVars, colVars, argVars, asmVars, evalVars>>

IntoBackend ==
    /\ Converted /\ fn_out = None
    /\ fn_in' = Some([fn |-> "into"])
    /\ fn_out' = Some(into_ConstraintSystemV2Backend(Unwrap(cs).ok))
    /\ UNCHANGED <<csVars, collVars, colVars, argVars, asmVars, evalVars>>

InitConvert ==
    /\ \E ng \in 0..MaxConvertItems :
       \E nl \in 0..(MaxConvertItems - ng) :
       \E ns \in 0..(MaxConvertItems - ng - nl) :
       \E np \in 0..(MaxConvertItems - ng - nl - ns) :
       \E gates \in [1..ng -> CollGates], lookups \in [1..nl -> CollLookups],
          shuffles \in [1..ns -> CollShuffles],
          permutation \in [1..np -> CollPermColumns],
          num_advice_columns \in 1..MaxAdviceColumns :
            cs2 = Some(ConstraintSystemV2Backend(num_advice_columns, gates,
                                                 permutation, lookups, shuffles))
    /\ collected = None
    /\ IdleCol /\ IdleArg /\ IdleAsm /\ IdleEval /\ IdleCS /\ IdleCall

NextConvert ==
    \/ FromBackend
    \/ GetAdviceQueryIndex
    \/ GetFixedQueryIndex
    \/ GetInstanceQueryIndex
    \/ GetAnyQueryIndex
    \/ IntoBackend

SpecConvert == InitConvert /\ [][NextConvert]_vars

\* The query array a getter reads, the kind of leaf that refers to it, and
\* the narrowed column the getter compares its entries with.
GetterKind(call) ==
    CASE call.fn = "get_advice_query_index" -> "Advice"
      [] call.fn = "get_fixed_query_index" -> "Fixed"
      [] call.fn = "get_instance_query_index" -> "Instance"
      [] call.fn = "get_any_query_index" -> call.column.column_type.kind
GetterArray(self, kind) ==
    CASE kind = "Advice" -> self.advice_queries
      [] kind = "Fixed" -> self.fixed_queries
      [] kind = "Instance" -> self.instance_queries
GetterEntry(call) ==
    IF call.fn # "get_any_query_index" THEN <<call.column, call.at>>
    ELSE CASE call.column.column_type.kind = "Advice" ->
                <<Column(call.column.index, AdviceT(call.column.column_type.phase)),
                  call.at>>
           [] call.column.column_type.kind = "Fixed" ->
                <<Column(call.column.index, FixedT), call.at>>
           [] call.column.column_type.kind = "Instance" ->
                <<Column(call.column.index, InstanceT), call.at>>

GetterReturned == Converted /\ fn_out # None /\ Unwrap(fn_in).fn # "into"

\* C26: on a ConstraintSystem built from a backend constraint system, each
\* of the four getters returns, for a (column, rotation) the collector
\* indexed, the position i of that entry in the query array of its kind,
\* which is the index every rewritten expression leaf for that query
\* carries; for a (column, rotation) that was not indexed the getter panics
\* and returns neither an error value nor an index.
C26_QueryIndexGetters ==
    GetterReturned =>
        LET self == Unwrap(cs).ok
            call == Unwrap(fn_in)
            res == Unwrap(fn_out)
            kind == GetterKind(call)
            array == GetterArray(self, kind)
            entry == GetterEntry(call)
        IN  IF entry \in Elems(array)
            THEN /\ "ok" \in DOMAIN res
                 /\ res.ok \in 0..(Len(array) - 1)
                 /\ array[res.ok + 1] = entry
                 /\ \A e \in RewrittenExprs(self) :
                    \A leaf \in QueryLeaves(e) :
                       (leaf.tag = kind /\ EntryOf(leaf) = entry)
                           => leaf.query.index = Some(res.ok)
            ELSE Panicked(res)

\* Witness of C26: get_any_query_index returned the index 1 for an advice
\* query that a rewritten gate polynomial refers to, on a system that also
\* indexed the same column at another rotation.
C26_Witness ==
    /\ GetterReturned
    /\ Unwrap(fn_in).fn = "get_any_query_index"
    /\ Unwrap(fn_in).column.column_type.kind = "Advice"
    /\ Unwrap(fn_out) = OkOf(1)
    /\ \E g \in Elems(Unwrap(cs).ok.gates) :
       \E leaf \in QueryLeaves(g.polys[1]) :
          /\ leaf.tag = "Advice"
          /\ EntryOf(leaf) = GetterEntry(Unwrap(fn_in))
          /\ leaf.query.index = Some(1)
    /\ \E other \in Elems(Unwrap(cs).ok.advice_queries) :
          /\ other[1] = GetterEntry(Unwrap(fn_in))[1]
          /\ other[2] # Unwrap(fn_in).at

\* Witness that the getters do panic: an advice column that is indexed at
\* one rotation was asked for at a rotation that is not indexed.
C26_PanicReached ==
    /\ GetterReturned
    /\ Panicked(Unwrap(fn_out))
    /\ \E other \in Elems(Unwrap(cs).ok.advice_queries) :
          other[1] = GetterEntry(Unwrap(fn_in))[1]

\* C30: converting a backend constraint system into a ConstraintSystem and
\* back succeeds and gives the original gate list: as many gates, in the
\* same order, each with the same name and the same polynomial.
C30_GatesRoundTrip ==
    (Converted /\ fn_out # None /\ Unwrap(fn_in).fn = "into") =>
        /\ ~Panicked(Unwrap(fn_out))
        /\ Unwrap(fn_out).ok.gates = Unwrap(cs2).gates

\* The round trip of a backend constraint system without gates does return,
\* and the one of a system with a gate panics.
C30_GatelessRoundTrip ==
    (Converted /\ fn_out # None /\ Unwrap(fn_in).fn = "into") =>
        IF Unwrap(cs2).gates = <<>>
        THEN /\ ~Panicked(Unwrap(fn_out))
             /\ Unwrap(fn_out).ok = Unwrap(cs2)
        ELSE Panicked(Unwrap(fn_out))

----------------------------------------------------------------------------
(* Permutation keys and their serialization (permutation.rs 90-178).       *)
(*                                                                         *)
(* The encodings of a curve point, of a scalar and of a polynomial vector  *)
(* live in the helpers module, outside these sources; they are modelled    *)
(* from the specification: a point has a fixed-size encoding whose size    *)
(* the format decides, and a polynomial vector is written with its element *)
(* count in front.                                                         *)

\* Bound: the largest byte value of a stream.
MaxByte == 2
\* Bound: the longest stream that is read.
MaxStream == 5
\* Bound: the largest number of commitments of a verifying key, of
\* polynomials of a vector and of values of a polynomial that is written.
MaxKeyLen == 2

Bytes == 0..MaxByte
\* The curve points, each known by its x coordinate, and the scalars.
Points == {0, 1}
Scalars == {0, 1}
PointY(x) == 1 - x
SerdeFormats == {"Processed", "RawBytes"}

\* io::ErrorKind of a failed read
UnexpectedEof == Err("UnexpectedEof")
InvalidData == Err("InvalidData")
IsErr(r) == "err" \in DOMAIN r

\* SerdeCurveAffine::byte_length: compressed or uncompressed.
byte_length(format) == IF format = "Processed" THEN 1 ELSE 2

\* SerdeCurveAffine::write: the bytes of one point.
Point_write(point, format) ==
    IF format = "Processed" THEN <<point>> ELSE <<point, PointY(point)>>

\* SerdeCurveAffine::read: byte_length(format) bytes are taken from the
\* reader and decoded; a short reader is left empty.
Point_read(reader, format) ==
    LET n == byte_length(format)
    IN  IF Len(reader) < n THEN [result |-> UnexpectedEof, reader |-> <<>>]
        ELSE LET rest == SubSeq(reader, n + 1, Len(reader))
                 valid == /\ reader[1] \in Points
                          /\ format = "RawBytes" => reader[2] = PointY(reader[1])
             IN  IF valid THEN [result |-> OkOf(reader[1]), reader |-> rest]
                 ELSE [result |-> InvalidData, reader |-> rest]

\* Polynomial::write: the number of values, then each value as one scalar.
Polynomial_write(poly, format) == <<Len(poly)>> \o poly

\* The scalars of Polynomial::read, one after the other.
RECURSIVE read_scalars(_, _, _)
read_scalars(reader, n, format) ==
    IF n = 0 THEN [result |-> OkOf(<<>>), reader |-> reader]
    ELSE IF reader = <<>> THEN [result |-> UnexpectedEof, reader |-> <<>>]
    ELSE IF Head(reader) \notin Scalars
    THEN [result |-> InvalidData, reader |-> Tail(reader)]
    ELSE LET rest == read_scalars(Tail(reader), n - 1, format)
         IN  IF IsErr(rest.result) THEN rest
             ELSE [result |-> OkOf(<<Head(reader)>> \o rest.result.ok),
                   reader |-> rest.reader]

\* Polynomial::read
Polynomial_read(reader, format) ==
    IF reader = <<>> THEN [result |-> UnexpectedEof, reader |-> <<>>]
    ELSE read_scalars(Tail(reader), Head(reader), format)

\* helpers::write_polynomial_slice: the element count, then each polynomial.
RECURSIVE write_polynomials(_, _)
write_polynomials(slice, format) ==
    IF slice = <<>> THEN <<>>
    ELSE Polynomial_write(Head(slice), format) \o write_polynomials(Tail(slice), format)
write_polynomial_slice(slice, format) ==
    <<Len(slice)>> \o write_polynomials(slice, format)

\* helpers::read_polynomial_vec: the element count, then that many
\* polynomials; the first failure is returned.
RECURSIVE read_polynomials(_, _, _)
read_polynomials(reader, n, format) ==
    IF n = 0 THEN [result |-> OkOf(<<>>), reader |-> reader]
    ELSE LET first == Polynomial_read(reader, format)
         IN  IF IsErr(first.result) THEN first
             ELSE LET rest == read_polynomials(first.reader, n - 1, format)
                  IN  IF IsErr(rest.result) THEN rest
                      ELSE [result |-> OkOf(<<first.result.ok>> \o rest.result.ok),
                            reader |-> rest.reader]
read_polynomial_vec(reader, format) ==
    IF reader = <<>> THEN [result |-> UnexpectedEof, reader |-> <<>>]
    ELSE read_polynomials(Tail(reader), Head(reader), format)

\* struct VerifyingKey and struct ProvingKey
VerifyingKey(commitments) == [commitments |-> commitments]
ProvingKey(permutations, polys, cosets) ==
    [permutations |-> permutations, polys |-> polys, cosets |-> cosets]

\* VerifyingKey::write: what the writer holds after the call.
RECURSIVE VerifyingKey_write(_, _, _)
VerifyingKey_write(self, writer, format) ==
    IF self.commitments = <<>> THEN writer
    ELSE VerifyingKey_write(VerifyingKey(Tail(self.commitments)),
                            writer \o Point_write(Head(self.commitments), format),
                            format)

\* A plausible slip: a failed read ends the collection, and what was read
\* before it is kept.
RECURSIVE read_commitments_keep_partial(_, _, _)
read_commitments_keep_partial(reader, n, format) ==
    IF n = 0 THEN [result |-> OkOf(<<>>), reader |-> reader]
    ELSE LET first == Point_read(reader, format)
         IN  IF IsErr(first.result)
             THEN [result |-> OkOf(<<>>), reader |-> first.reader]
             ELSE LET rest == read_commitments_keep_partial(first.reader, n - 1, format)
                  IN  [result |-> OkOf(<<first.result.ok>> \o rest.result.ok),
                       reader |-> rest.reader]

\* (0..n).map(|_| C::read(reader, format)).collect::<Result<Vec<_>, _>>():
\* the points are read in order, and the first Err ends the collection and
\* is its result.
RECURSIVE read_commitments(_, _, _)
read_commitments(reader, n, format) ==
    IF n = 0 THEN [result |-> OkOf(<<>>), reader |-> reader]
    ELSE LET first == Point_read(reader, format)
         IN  IF IsErr(first.result) THEN first
             ELSE LET rest == read_commitments(first.reader, n - 1, format)
                  IN  IF IsErr(rest.result) THEN rest
                      ELSE [result |-> OkOf(<<first.result.ok>> \o rest.result.ok),
                            reader |-> rest.reader]

\* VerifyingKey::read: the Result, and the reader after the call.
VerifyingKey_read(reader, argument, format) ==
    LET commitments == read_commitments(reader, Len(argument), format)
    IN  IF IsErr(commitments.result) THEN commitments
        ELSE [result |-> OkOf(VerifyingKey(commitments.result.ok)),
              reader |-> commitments.reader]

\* A plausible slip: the length of the compressed encoding, whatever the
\* format.
VerifyingKey_bytes_length_compressed(self, format) ==
    Len(self.commitments) * byte_length("Processed")

\* VerifyingKey::bytes_length
VerifyingKey_bytes_length(self, format) ==
    Len(self.commitments) * byte_length(format)

\* A plausible slip: the coefficient-form vector is read first.
ProvingKey_read_polys_first(reader, format) ==
    LET polys == read_polynomial_vec(reader, format)
    IN  IF IsErr(polys.result) THEN polys
        ELSE LET permutations == read_polynomial_vec(polys.reader, format)
             IN  IF IsErr(permutations.result) THEN permutations
                 ELSE LET cosets == read_polynomial_vec(permutations.reader, format)
                      IN  IF IsErr(cosets.result) THEN cosets
                          ELSE [result |-> OkOf(ProvingKey(permutations.result.ok,
                                                           polys.result.ok,
                                                           cosets.result.ok)),
                                reader |-> cosets.reader]

\* ProvingKey::read: each ? returns the Err of the vector that failed.
ProvingKey_read(reader, format) ==
    LET permutations == read_polynomial_vec(reader, format)
    IN  IF IsErr(permutations.result) THEN permutations
        ELSE LET polys == read_polynomial_vec(permutations.reader, format)
             IN  IF IsErr(polys.result) THEN polys
                 ELSE LET cosets == read_polynomial_vec(polys.reader, format)
                      IN  IF IsErr(cosets.result) THEN cosets
                          ELSE [result |-> OkOf(ProvingKey(permutations.result.ok,
                                                           polys.result.ok,
                                                           cosets.result.ok)),
                                reader |-> cosets.reader]

\* ProvingKey::write: what the writer holds after the call.
ProvingKey_write(self, writer, format) ==
    writer \o write_polynomial_slice(self.permutations, format)
           \o write_polynomial_slice(self.polys, format)
           \o write_polynomial_slice(self.cosets, format)

\* Bound: the polynomials of a proving key that is written, over its three
\* vectors, and the values of each of them.
MaxKeyPolys == 2
MaxPolyLen == 1

\* The keys that are written, the streams that are read, and the Argument
\* with n columns a verifying key is read for.
KeyVKs == {VerifyingKey(c) : c \in SeqsUpTo(Points, MaxKeyLen)}
KeyPolys == SeqsUpTo(Scalars, MaxPolyLen)
KeyShapes ==
    {n \in (0..MaxKeyPolys) \X (0..MaxKeyPolys) \X (0..MaxKeyPolys) :
        n[1] + n[2] + n[3] <= MaxKeyPolys}
KeyPKs ==
    UNION {{ProvingKey(a, b, c) :
                a \in [1..n[1] -> KeyPolys], b \in [1..n[2] -> KeyPolys],
                c \in [1..n[3] -> KeyPolys]} : n \in KeyShapes}
Streams == SeqsUpTo(Bytes, MaxStream)
KeyArgument(n) == [i \in 1..n |-> Column(i - 1, AnyFixed)]

WriteVerifyingKey ==
    /\ fn_in # None /\ fn_out = None
    /\ Unwrap(fn_in).kind = "vk"
    /\ fn_out' = Some([written |-> VerifyingKey_write(Unwrap(fn_in).key, <<>>,
                                                      Unwrap(fn_in).format)])
    /\ UNCHANGED <<fn_in, colVars, argVars, asmVars, evalVars, collVars, csVars>>

BytesLength ==
    /\ fn_in # None /\ fn_out # None
    /\ Unwrap(fn_in).kind = "vk"
    /\ DOMAIN Unwrap(fn_out) = {"written"}
    /\ fn_out' = Some([written |-> Unwrap(fn_out).written,
                       length |-> VerifyingKey_bytes_length(Unwrap(fn_in).key,
                                                            Unwrap(fn_in).format)])
    /\ UNCHANGED <<fn_in, colVars, argVars, asmVars, evalVars, collVars, csVars>>

ReadVerifyingKeyBack ==
    /\ fn_in # None /\ fn_out # None
    /\ Unwrap(fn_in).kind = "vk"
    /\ DOMAIN Unwrap(fn_out) = {"written", "length"}
    /\ fn_out' = Some([written |-> Unwrap(fn_out).written,
                       length |-> Unwrap(fn_out).length,
                       read |-> VerifyingKey_read(
                                    Unwrap(fn_out).written,
                                    KeyArgument(Len(Unwrap(fn_in).key.commitments)),
                                    Unwrap(fn_in).format)])
    /\ UNCHANGED <<fn_in, colVars, argVars, asmVars, evalVars, collVars, csVars>>

WriteProvingKey ==
    /\ fn_in # None /\ fn_out = None
    /\ Unwrap(fn_in).kind = "pk"
    /\ fn_out' = Some([written |-> ProvingKey_write(Unwrap(fn_in).key, <<>>,
                                                    Unwrap(fn_in).format)])
    /\ UNCHANGED <<fn_in, colVars, argVars, asmVars, evalVars, collVars, csVars>>

ReadProvingKeyBack ==
    /\ fn_in # None /\ fn_out # None
    /\ Unwrap(fn_in).kind = "pk"
    /\ DOMAIN Unwrap(fn_out) = {"written"}
    /\ fn_out' = Some([written |-> Unwrap(fn_out).written,
                       read |-> ProvingKey_read(Unwrap(fn_out).written,
                                                Unwrap(fn_in).format)])
    /\ UNCHANGED <<fn_in, colVars, argVars, asmVars, evalVars, collVars, csVars>>

ReadVerifyingKey ==
    /\ fn_in # None /\ fn_out = None
    /\ Unwrap(fn_in).kind = "vk_stream"
    /\ fn_out' = Some([read |-> VerifyingKey_read(Unwrap(fn_in).reader,
                                                  Unwrap(fn_in).argument,
                                                  Unwrap(fn_in).format)])
    /\ UNCHANGED <<fn_in, colVars, argVars, asmVars, evalVars, collVars, csVars>>

ReadProvingKey ==
    /\ fn_in # None /\ fn_out = None
    /\ Unwrap(fn_in).kind = "pk_stream"
    /\ fn_out' = Some([read |-> ProvingKey_read(Unwrap(fn_in).reader,
                                                Unwrap(fn_in).format)])
    /\ UNCHANGED <<fn_in, colVars, argVars, asmVars, evalVars, collVars, csVars>>

InitKeys ==
    /\ \E format \in SerdeFormats :
          \/ \E key \in KeyVKs :
                fn_in = Some([kind |-> "vk", key |-> key, format |-> format])
          \/ \E key \in KeyPKs :
                fn_in = Some([kind |-> "pk", key |-> key, format |-> format])
          \/ \E reader \in Streams, n \in 0..MaxKeyLen :
                fn_in = Some([kind |-> "vk_stream", reader |-> reader,
                              argument |-> KeyArgument(n), format |-> format])
          \/ \E reader \in Streams :
                fn_in = Some([kind |-> "pk_stream", reader |-> reader,
                              format |-> format])
    /\ fn_out = None
    /\ IdleCol /\ IdleArg /\ IdleAsm /\ IdleEval /\ IdleColl /\ IdleCS

NextKeys ==
    \/ WriteVerifyingKey
    \/ BytesLength
    \/ ReadVerifyingKeyBack
    \/ WriteProvingKey
    \/ ReadProvingKeyBack
    \/ ReadVerifyingKey
    \/ ReadProvingKey

SpecKeys == InitKeys /\ [][NextKeys]_vars

KeyCall == Unwrap(fn_in)
KeyOut == Unwrap(fn_out)
\* Encoding i of a stream cut into encodings of len bytes.
Chunk(stream, i, len) == SubSeq(stream, (i - 1) * len + 1, i * len)
\* What ProvingKey::write produces for the keys that are written.
KeyEncodings ==
    [format \in SerdeFormats |->
        {ProvingKey_write(key, <<>>, format) : key \in KeyPKs}]

\* C21: a VerifyingKey read for an argument holds as many commitments as the
\* argument has columns, commitment i decoded from encoding i of the stream,
\* and the reader has moved past exactly these encodings; write emits the
\* encoding of each commitment in stored order and nothing else; and
\* bytes_length(format) is the commitment count times the length of a point
\* in that format.
C21_VerifyingKeyLayout ==
    fn_out # None =>
        LET len == byte_length(KeyCall.format)
        IN  /\ (KeyCall.kind = "vk_stream" /\ ~IsErr(KeyOut.read.result)) =>
                  LET commitments == KeyOut.read.result.ok.commitments
                      n == Len(KeyCall.argument)
                  IN  /\ Len(commitments) = n
                      /\ \A i \in 1..n :
                            Point_write(commitments[i], KeyCall.format)
                                = Chunk(KeyCall.reader, i, len)
                      /\ KeyOut.read.reader
                            = SubSeq(KeyCall.reader, n * len + 1, Len(KeyCall.reader))
            /\ KeyCall.kind = "vk" =>
                  LET commitments == KeyCall.key.commitments
                  IN  /\ Len(KeyOut.written) = Len(commitments) * len
                      /\ \A i \in 1..Len(commitments) :
                            Chunk(KeyOut.written, i, len)
                                = Point_write(commitments[i], KeyCall.format)
                      /\ "length" \in DOMAIN KeyOut =>
                            /\ KeyOut.length = Len(commitments) * len
                            /\ KeyOut.length = Len(KeyOut.written)

\* Witness of C21: two different uncompressed points were read for an
\* argument of two columns from a stream that holds a byte more, and the
\* byte is left in the reader.
C21_Witness ==
    /\ fn_out # None
    /\ KeyCall.kind = "vk_stream"
    /\ KeyCall.format = "RawBytes"
    /\ Len(KeyCall.argument) = 2
    /\ ~IsErr(KeyOut.read.result)
    /\ KeyOut.read.result.ok.commitments[1] # KeyOut.read.result.ok.commitments[2]
    /\ Len(KeyOut.read.reader) = 1

\* Witness of C21 for bytes_length: the length of a key of two uncompressed
\* commitments was taken.
C21_LengthReached ==
    /\ fn_out # None
    /\ KeyCall.kind = "vk"
    /\ "length" \in DOMAIN KeyOut
    /\ KeyCall.format = "RawBytes"
    /\ KeyOut.length = 4

\* C22: under one format, ProvingKey::read of what ProvingKey::write
\* produced returns a key with the same permutations, polys and cosets, the
\* three vectors being written in that order; and VerifyingKey::read of what
\* VerifyingKey::write produced, for an argument with as many columns as the
\* key has commitments, returns the same commitments in the same order.
C22_KeyRoundTrip ==
    (fn_out # None /\ KeyCall.kind \in {"vk", "pk"}) =>
        /\ KeyCall.kind = "pk" =>
              KeyOut.written
                  = write_polynomial_slice(KeyCall.key.permutations, KeyCall.format)
                    \o write_polynomial_slice(KeyCall.key.polys, KeyCall.format)
                    \o write_polynomial_slice(KeyCall.key.cosets, KeyCall.format)
        /\ "read" \in DOMAIN KeyOut =>
              /\ KeyOut.read.result = OkOf(KeyCall.key)
              /\ KeyOut.read.reader = <<>>

\* Witness of C22: a proving key whose three vectors differ from one
\* another was written and read back.
C22_Witness ==
    /\ fn_out # None
    /\ KeyCall.kind = "pk"
    /\ "read" \in DOMAIN KeyOut
    /\ KeyCall.key.permutations # <<>>
    /\ KeyCall.key.polys # <<>>
    /\ KeyCall.key.permutations # KeyCall.key.polys
    /\ KeyCall.key.cosets # KeyCall.key.polys
    /\ KeyOut.read.result = OkOf(KeyCall.key)

\* The stream holds, for each of the first n encodings of len bytes, all of
\* its bytes and the encoding of a point.
CompleteCommitments(stream, n, format) ==
    /\ Len(stream) >= n * byte_length(format)
    /\ \A i \in 1..n :
          \E point \in Points :
              Point_write(point, format) = Chunk(stream, i, byte_length(format))

WellFormedVector(v) ==
    \A i \in 1..Len(v) : \A j \in 1..Len(v[i]) : v[i][j] \in Scalars

\* C23: a read that meets the end of the stream or an element that does not
\* decode, before all the commitments of the argument (VerifyingKey::read)
\* or all three polynomial vectors (ProvingKey::read) are read, returns an
\* I/O error and no key, also when elements before it were read; a key that
\* is returned is complete.  (For the proving key: an error is returned only
\* when no prefix of the stream is the encoding of a key, and a key that is
\* returned is the one whose encoding the reader has moved past.)
C23_NoPartialKey ==
    (fn_out # None /\ KeyCall.kind \in {"vk_stream", "pk_stream"}) =>
        LET res == KeyOut.read.result
        IN  /\ IsErr(res) => (res \in {UnexpectedEof, InvalidData}
                              /\ DOMAIN res = {"err"})
            /\ KeyCall.kind = "vk_stream" =>
                  (IsErr(res) <=>
                      ~CompleteCommitments(KeyCall.reader, Len(KeyCall.argument),
                                           KeyCall.format))
            /\ KeyCall.kind = "pk_stream" =>
                  IF IsErr(res)
                  THEN \A n \in 0..Len(KeyCall.reader) :
                          SubSeq(KeyCall.reader, 1, n) \notin KeyEncodings[KeyCall.format]
                  ELSE /\ DOMAIN res.ok = {"permutations", "polys", "cosets"}
                       /\ WellFormedVector(res.ok.permutations)
                       /\ WellFormedVector(res.ok.polys)
                       /\ WellFormedVector(res.ok.cosets)
                       /\ ProvingKey_write(res.ok, <<>>, KeyCall.format)
                              \o KeyOut.read.reader = KeyCall.reader

\* Witness of C23: the first of two commitments decodes and the second does
\* not, and the read returned an error.
C23_Witness ==
    /\ fn_out # None
    /\ KeyCall.kind = "vk_stream"
    /\ Len(KeyCall.argument) = 2
    /\ CompleteCommitments(KeyCall.reader, 1, KeyCall.format)
    /\ Len(KeyCall.reader) >= 2 * byte_length(KeyCall.format)
    /\ IsErr(KeyOut.read.result)

\* Witness of C23 for the proving key: the first vector decodes, with a
\* polynomial in it, and the stream ends within the second.
C23_ProvingKeyTruncated ==
    /\ fn_out # None
    /\ KeyCall.kind = "pk_stream"
    /\ ~IsErr(read_polynomial_vec(KeyCall.reader, KeyCall.format).result)
    /\ read_polynomial_vec(KeyCall.reader, KeyCall.format).result.ok # <<>>
    /\ KeyOut.read.result = UnexpectedEof

====
